---- MODULE Spec2Model ----
(***************************************************************************)
(* A model of github.com/oarkflow/sqlparser: the byte-level lexer, the     *)
(* keyword table, the recursive-descent / Pratt parser and its arena, the  *)
(* dialect renderer behind ConvertDialectWithOptions, and the analyzer.    *)
(*                                                                         *)
(* Source bytes are sequences of integers 0..255, so that the character    *)
(* tests of the lexer (c >= 'A' && c <= 'Z', c + 32, c >= 0x80) are the    *)
(* comparisons of the code.  Offsets are 0-based as in the code: byte i of *)
(* a source s is s[i+1].                                                   *)
(***************************************************************************)
EXTENDS Integers, Sequences, FiniteSets, TLC

VARIABLES
    arg,      \* the source handed to the entry point under check
    lex,      \* the Lexer: [src, pos, line, col]; under Reset, a parser newly
              \* made on the source and what it returned
    buf,      \* the tokens Tokenize has appended so far, or the tokens that
              \* became current; in the round trip, what renderStatements
              \* returned: [s, err, paramIndex]; the parser's arena
    phase,    \* which entry point is running and how far it is
    par,      \* the Parser: [lex, tok, peek, hasPeek]; with the arena alone,
              \* what the running parse holds in it
    out,      \* what ParseOne / ParseAll returned: [v, err], with the result
              \* of the second parse of a round trip as again; the [s, err,
              \* paramIndex] of the ConvertDialectWithOptions calls, in order;
              \* the report of AnalyzeSQLWithOptions; the token peekToken
              \* returned; the regions alloc returned
    input     \* the pieces the source was assembled from, and the options;
              \* counters of the calls made

vars == <<arg, lex, buf, phase, par, out, input>>

(***************************************************************************)
(* Bytes.                                                                  *)
(***************************************************************************)
\* ASCII 32..95 and 97..126 (a backquote, byte 96, cannot be written in a string)
PrintableLo ==
    " !\"#$%&'()*+,-./0123456789:;<=>?@ABCDEFGHIJKLMNOPQRSTUVWXYZ[\\]^_"

PrintableHi ==
    "abcdefghijklmnopqrstuvwxyz{|}~"

\* The byte value of a one-character string.
Ord ==
    [c \in {SubSeq(PrintableLo, i, i) : i \in 1..Len(PrintableLo)}
           \cup {SubSeq(PrintableHi, i, i) : i \in 1..Len(PrintableHi)}
           \cup {"\t", "\n", "\f", "\r"} |->
        IF c = "\t" THEN 9
        ELSE IF c = "\n" THEN 10
        ELSE IF c = "\f" THEN 12
        ELSE IF c = "\r" THEN 13
        ELSE IF \E i \in 1..Len(PrintableLo) : SubSeq(PrintableLo, i, i) = c
        THEN 31 + CHOOSE i \in 1..Len(PrintableLo) : SubSeq(PrintableLo, i, i) = c
        ELSE 96 + CHOOSE i \in 1..Len(PrintableHi) : SubSeq(PrintableHi, i, i) = c]

\* the backquote byte
BQ == Len(PrintableLo) + 32

\* []byte(s)
Bytes(s) == [i \in 1..Len(s) |-> Ord[SubSeq(s, i, i)]]

Ch(c) == Ord[c]

ByteSet == 0..255

\* src[i], 0-based
At(src, i) == src[i + 1]

\* src[a:b], 0-based half-open
Slice(src, a, b) == SubSeq(src, a + 1, b)

(***************************************************************************)
(* lexer: character classes                                                *)
(***************************************************************************)
isSpace(c) == c \in {Ch(" "), Ch("\t"), 11, Ch("\f")}

isAlpha(c) ==
    \/ (c >= Ch("a") /\ c <= Ch("z"))
    \/ (c >= Ch("A") /\ c <= Ch("Z"))
    \/ c = Ch("_")

isDigit(c) == c >= Ch("0") /\ c <= Ch("9")

isHexDigit(c) ==
    \/ (c >= Ch("0") /\ c <= Ch("9"))
    \/ (c >= Ch("a") /\ c <= Ch("f"))
    \/ (c >= Ch("A") /\ c <= Ch("F"))

identContTable ==
    (Ch("a")..Ch("z")) \cup (Ch("A")..Ch("Z")) \cup (Ch("0")..Ch("9")) \cup {Ch("_"), Ch("$")}

isIdentCont(c) == c \in identContTable

(***************************************************************************)
(* TokenType: the iota enumeration, in declaration order.  A token type is *)
(* written by its name; TokOf gives its number, which parseIdent compares. *)
(***************************************************************************)
TokenNames ==
    << "ILLEGAL", "EOF", "COMMENT", "WHITESPACE",
       "IDENT", "INT", "FLOAT", "STRING", "BACKTICK", "DQUOTE", "HEXLIT", "BITLIT", "NAMEDPARAM",
       "LPAREN", "RPAREN", "LBRACE", "RBRACE", "LBRACKET", "RBRACKET", "COMMA", "SEMICOLON",
       "COLON", "DOT", "DOTDOT", "STAR", "PLUS", "MINUS", "SLASH", "PERCENT", "AMPERSAND",
       "PIPE", "CARET", "TILDE", "BANG", "QUESTION", "AT", "HASH", "DOLLAR",
       "EQ", "NEQ", "LT", "GT", "LTE", "GTE", "LSHIFT", "RSHIFT", "DBAR", "DAMP", "DARROW",
       "ARROW", "DARROW2", "HASHARROW", "HASHDARROW", "ATGT", "LTAT", "QMARKPIPE", "QMARKAMP",
       "kwSTART",
       "ADD", "AFTER", "ALL", "ALTER", "ANALYZE", "AND", "AS", "ASC", "AUTO_INCREMENT",
       "BETWEEN", "BY", "CASCADE", "CASE", "CAST", "CHANGE", "CHARACTER", "CHECK", "COLLATE",
       "COLUMN", "COMMENT_KW", "CONSTRAINT", "CREATE", "CROSS", "DATABASE", "DEFAULT",
       "DEFERRABLE", "DEFERRED", "DELETE", "DESC", "DISTINCT", "DROP", "ELSE", "END", "ENGINE",
       "ESCAPE", "EXCEPT", "EXISTS", "EXPLAIN", "FALSE_KW", "FIRST", "FOR", "FOREIGN", "FROM",
       "FULL", "FUNCTION", "GROUP", "HAVING", "IF", "IGNORE", "IN", "INDEX", "INNER", "INSERT",
       "INTERSECT", "INTO", "IS", "JOIN", "KEY", "LAST", "LEFT", "LIKE", "LIMIT", "MATCH",
       "NATURAL", "NO", "NOT", "NULL_KW", "OFFSET", "ON", "OR", "ORDER", "OUTER", "PARTITION",
       "PRIMARY", "PROCEDURE", "RECURSIVE", "REFERENCES", "RENAME", "REPLACE", "RESTRICT",
       "RIGHT", "ROLLBACK", "SELECT", "SET", "SHOW", "TABLE", "TABLES", "THEN", "TO",
       "TRANSACTION", "TRIGGER", "TRUE_KW", "TRUNCATE", "UNION", "UNIQUE", "UPDATE", "USE",
       "USING", "VALUES", "VIEW", "WHEN", "WHERE", "WITH", "WITHOUT",
       "kwEND",
       "BIGINT", "BINARY", "BLOB", "BOOLEAN", "CHAR", "DATE", "DATETIME", "DECIMAL", "DOUBLE",
       "ENUM", "FLOAT_KW", "INT_KW", "INTEGER", "JSON", "JSONB", "LONGBLOB", "LONGTEXT",
       "MEDIUMBLOB", "MEDIUMINT", "MEDIUMTEXT", "NCHAR", "NUMERIC", "REAL", "SMALLINT", "TEXT",
       "TIME", "TIMESTAMP", "TINYBLOB", "TINYINT", "TINYTEXT", "VARBINARY", "VARCHAR", "YEAR" >>

TokOf ==
    [n \in {TokenNames[i] : i \in 1..Len(TokenNames)} |->
        (CHOOSE i \in 1..Len(TokenNames) : TokenNames[i] = n) - 1]

(***************************************************************************)
(* The keyword table (init of the lexer package): words in declaration     *)
(* order, bucketed by length into keywordsByLen [32][]kwEntry.             *)
(***************************************************************************)
kwWords ==
    << <<"add", "ADD">>, <<"after", "AFTER">>, <<"all", "ALL">>, <<"alter", "ALTER">>,
       <<"analyze", "ANALYZE">>, <<"and", "AND">>, <<"as", "AS">>, <<"asc", "ASC">>,
       <<"auto_increment", "AUTO_INCREMENT">>, <<"between", "BETWEEN">>, <<"bigint", "BIGINT">>,
       <<"binary", "BINARY">>, <<"blob", "BLOB">>, <<"boolean", "BOOLEAN">>, <<"by", "BY">>,
       <<"cascade", "CASCADE">>, <<"case", "CASE">>, <<"cast", "CAST">>, <<"change", "CHANGE">>,
       <<"char", "CHAR">>, <<"character", "CHARACTER">>, <<"check", "CHECK">>,
       <<"collate", "COLLATE">>, <<"column", "COLUMN">>, <<"comment", "COMMENT_KW">>,
       <<"constraint", "CONSTRAINT">>, <<"create", "CREATE">>, <<"cross", "CROSS">>,
       <<"database", "DATABASE">>, <<"date", "DATE">>, <<"datetime", "DATETIME">>,
       <<"decimal", "DECIMAL">>, <<"default", "DEFAULT">>, <<"deferrable", "DEFERRABLE">>,
       <<"deferred", "DEFERRED">>, <<"delete", "DELETE">>, <<"desc", "DESC">>,
       <<"distinct", "DISTINCT">>, <<"double", "DOUBLE">>, <<"drop", "DROP">>,
       <<"else", "ELSE">>, <<"end", "END">>, <<"engine", "ENGINE">>, <<"enum", "ENUM">>,
       <<"escape", "ESCAPE">>, <<"except", "EXCEPT">>, <<"exists", "EXISTS">>,
       <<"explain", "EXPLAIN">>, <<"false", "FALSE_KW">>, <<"first", "FIRST">>,
       <<"float", "FLOAT_KW">>, <<"for", "FOR">>, <<"foreign", "FOREIGN">>, <<"from", "FROM">>,
       <<"full", "FULL">>, <<"function", "FUNCTION">>, <<"group", "GROUP">>,
       <<"having", "HAVING">>, <<"if", "IF">>, <<"ignore", "IGNORE">>, <<"in", "IN">>,
       <<"index", "INDEX">>, <<"inner", "INNER">>, <<"insert", "INSERT">>, <<"int", "INT_KW">>,
       <<"integer", "INTEGER">>, <<"intersect", "INTERSECT">>, <<"into", "INTO">>,
       <<"is", "IS">>, <<"join", "JOIN">>, <<"json", "JSON">>, <<"jsonb", "JSONB">>,
       <<"key", "KEY">>, <<"last", "LAST">>, <<"left", "LEFT">>, <<"like", "LIKE">>,
       <<"limit", "LIMIT">>, <<"longblob", "LONGBLOB">>, <<"longtext", "LONGTEXT">>,
       <<"match", "MATCH">>, <<"mediumblob", "MEDIUMBLOB">>, <<"mediumint", "MEDIUMINT">>,
       <<"mediumtext", "MEDIUMTEXT">>, <<"natural", "NATURAL">>, <<"nchar", "NCHAR">>,
       <<"no", "NO">>, <<"not", "NOT">>, <<"null", "NULL_KW">>, <<"numeric", "NUMERIC">>,
       <<"offset", "OFFSET">>, <<"on", "ON">>, <<"or", "OR">>, <<"order", "ORDER">>,
       <<"outer", "OUTER">>, <<"partition", "PARTITION">>, <<"primary", "PRIMARY">>,
       <<"procedure", "PROCEDURE">>, <<"real", "REAL">>, <<"recursive", "RECURSIVE">>,
       <<"references", "REFERENCES">>, <<"rename", "RENAME">>, <<"replace", "REPLACE">>,
       <<"restrict", "RESTRICT">>, <<"right", "RIGHT">>, <<"rollback", "ROLLBACK">>,
       <<"select", "SELECT">>, <<"set", "SET">>, <<"show", "SHOW">>, <<"smallint", "SMALLINT">>,
       <<"table", "TABLE">>, <<"tables", "TABLES">>, <<"text", "TEXT">>, <<"then", "THEN">>,
       <<"time", "TIME">>, <<"timestamp", "TIMESTAMP">>, <<"tinyblob", "TINYBLOB">>,
       <<"tinyint", "TINYINT">>, <<"tinytext", "TINYTEXT">>, <<"to", "TO">>,
       <<"transaction", "TRANSACTION">>, <<"trigger", "TRIGGER">>, <<"true", "TRUE_KW">>,
       <<"truncate", "TRUNCATE">>, <<"union", "UNION">>, <<"unique", "UNIQUE">>,
       <<"update", "UPDATE">>, <<"use", "USE">>, <<"using", "USING">>, <<"values", "VALUES">>,
       <<"varbinary", "VARBINARY">>, <<"varchar", "VARCHAR">>, <<"view", "VIEW">>,
       <<"when", "WHEN">>, <<"where", "WHERE">>, <<"with", "WITH">>, <<"without", "WITHOUT">>,
       <<"year", "YEAR">> >>

\* len(keywordsByLen)
KeywordBuckets == 32

\* len(Lexer.scratch)
ScratchLen == 64

\* keywordsByLen[n]: the entries of length n, in the order init appends them;
\* a word of length >= len(keywordsByLen) is dropped by init.
keywordsByLen ==
    [n \in 0..(KeywordBuckets - 1) |->
        LET idx == {i \in 1..Len(kwWords) : Len(kwWords[i][1]) = n}
            RECURSIVE pick(_)
            pick(S) ==
                IF S = {} THEN <<>>
                ELSE LET m == CHOOSE x \in S : \A y \in S : x <= y
                     IN  <<[word |-> Bytes(kwWords[m][1]), tok |-> kwWords[m][2]]>> \o pick(S \ {m})
        IN  pick(idx)]

RECURSIVE bytesEqualFrom(_, _, _)
bytesEqualFrom(b, s, i) ==
    IF i > Len(b) THEN TRUE
    ELSE IF b[i] # s[i] THEN FALSE
    ELSE bytesEqualFrom(b, s, i + 1)

bytesEqualString(b, s) ==
    IF Len(b) # Len(s) THEN FALSE ELSE bytesEqualFrom(b, s, 1)

RECURSIVE scanBucket(_, _, _)
scanBucket(val, bucket, i) ==
    IF i > Len(bucket) THEN "IDENT"
    ELSE IF bytesEqualString(val, bucket[i].word) THEN bucket[i].tok
    ELSE scanBucket(val, bucket, i + 1)

\* lookupKeyword returns the token for a lowercase keyword, or IDENT.
lookupKeyword(val) ==
    LET l == Len(val)
    IN  IF l = 0 \/ l >= KeywordBuckets THEN "IDENT"
        ELSE scanBucket(val, keywordsByLen[l], 1)

(***************************************************************************)
(* Lexer                                                                   *)
(***************************************************************************)
Token(typ, raw, p, line, col) == [Type |-> typ, Raw |-> raw, Pos |-> p, Line |-> line, Col |-> col]

\* lexer.New(src)
NewLexer(src) == [src |-> src, pos |-> 0, line |-> 1, col |-> 1]

\* l.pos++; l.col++
Adv(l) == [l EXCEPT !.pos = @ + 1, !.col = @ + 1]

AdvN(l, n) == [l EXCEPT !.pos = @ + n, !.col = @ + n]

\* for l.pos < len(l.src) && l.src[l.pos] in S { l.pos++; l.col++ }
RECURSIVE scan(_, _)
scan(l, S) ==
    IF l.pos < Len(l.src) /\ At(l.src, l.pos) \in S THEN scan(Adv(l), S) ELSE l

Tok(l, typ, start, line, col) ==
    [l |-> l, tok |-> Token(typ, Slice(l.src, start, l.pos), start, line, col)]

\* the copy into l.scratch without the case fold
keepByte(c) == c

\* the lowercase copy into l.scratch
lowerByte(c) == IF c >= Ch("A") /\ c <= Ch("Z") THEN c + 32 ELSE c

lexIdent(l0, start, line, col) ==
    LET l   == scan(Adv(l0), identContTable)
        raw == Slice(l.src, start, l.pos)
        n   == Len(raw)
    IN  IF n > ScratchLen THEN Tok(l, "IDENT", start, line, col)
        ELSE Tok(l, lookupKeyword([i \in 1..n |-> lowerByte(raw[i])]), start, line, col)

lexNumber(l0, start, line, col) ==
    LET digits == Ch("0")..Ch("9")
        l1 == scan(l0, digits)
        dot == l1.pos < Len(l1.src) /\ At(l1.src, l1.pos) = Ch(".")
        l2 == IF dot THEN scan(Adv(l1), digits) ELSE l1
        ex == l2.pos < Len(l2.src) /\ At(l2.src, l2.pos) \in {Ch("e"), Ch("E")}
        l3 == IF ex THEN Adv(l2) ELSE l2
        sg == ex /\ l3.pos < Len(l3.src) /\ At(l3.src, l3.pos) \in {Ch("+"), Ch("-")}
        l4 == IF sg THEN Adv(l3) ELSE l3
        l5 == IF ex THEN scan(l4, digits) ELSE l4
    IN  Tok(l5, IF dot \/ ex THEN "FLOAT" ELSE "INT", start, line, col)

\* utf8.DecodeRune(p): the width of the first rune of p; 1 for an invalid
\* or truncated encoding.
runeSize(src, i) ==
    LET n  == Len(src) - i
        b0 == At(src, i)
        cont(k) == k < n /\ At(src, i + k) \in 128..191
        in2(lo, hi) == 1 < n /\ At(src, i + 1) \in lo..hi
    IN  IF b0 \in 194..223 /\ cont(1) THEN 2
        ELSE IF b0 = 224 /\ in2(160, 191) /\ cont(2) THEN 3
        ELSE IF b0 \in ((225..236) \cup {238, 239}) /\ cont(1) /\ cont(2) THEN 3
        ELSE IF b0 = 237 /\ in2(128, 159) /\ cont(2) THEN 3
        ELSE IF b0 = 240 /\ in2(144, 191) /\ cont(2) /\ cont(3) THEN 4
        ELSE IF b0 \in 241..243 /\ cont(1) /\ cont(2) /\ cont(3) THEN 4
        ELSE IF b0 = 244 /\ in2(128, 143) /\ cont(2) /\ cont(3) THEN 4
        ELSE 1

\* the loop of lexQuoted, after the opening delimiter
RECURSIVE quotedBody(_, _)
quotedBody(l, delim) ==
    IF l.pos >= Len(l.src) THEN l
    ELSE LET c == At(l.src, l.pos) IN
         IF c = delim THEN
            LET l1 == Adv(l) IN
            IF l1.pos < Len(l1.src) /\ At(l1.src, l1.pos) = delim
            THEN quotedBody(Adv(l1), delim)
            ELSE l1
         ELSE IF c = Ch("\\") /\ delim # BQ THEN
            LET l1 == Adv(l) IN
            quotedBody(IF l1.pos < Len(l1.src) THEN Adv(l1) ELSE l1, delim)
         ELSE IF c = Ch("\n") THEN
            quotedBody([l EXCEPT !.line = @ + 1, !.col = 1, !.pos = @ + 1], delim)
         ELSE IF c >= 128 THEN
            quotedBody([l EXCEPT !.pos = @ + runeSize(l.src, l.pos), !.col = @ + 1], delim)
         ELSE quotedBody(Adv(l), delim)

\* lexQuoted without its scan: the token is cut where it starts
lexQuotedEmpty(l0, start, line, col, delim, typ) ==
    Tok(l0, typ, start, line, col)

lexQuoted(l0, start, line, col, delim, typ) ==
    Tok(quotedBody(Adv(l0), delim), typ, start, line, col)

lexHexLit(l0, start, line, col) ==
    LET l1 == scan(AdvN(l0, 2), ByteSet \ {Ch("'")})
        l2 == IF l1.pos < Len(l1.src) THEN Adv(l1) ELSE l1
    IN  Tok(l2, "HEXLIT", start, line, col)

lexHex0x(l0, start, line, col) ==
    Tok(scan(AdvN(l0, 2), {c \in ByteSet : isHexDigit(c)}), "HEXLIT", start, line, col)

\* lexBitLit handing lexQuoted the offset of the quote rather than of the b
lexBitLitFromQuote(l0, start, line, col) ==
    LET l1 == Adv(l0) IN lexQuoted(l1, l1.pos, line, col, Ch("'"), "BITLIT")

lexBitLit(l0, start, line, col) ==
    LET l1 == Adv(l0) IN lexQuoted(l1, l1.pos - 1, line, col, Ch("'"), "BITLIT")

\* lexPunct: single and multi-character punctuation and operators
lexPunct(l0, start, line, col) ==
    LET b  == At(l0.src, l0.pos)
        l1 == Adv(l0)
        pk(l) == IF l.pos < Len(l.src) THEN At(l.src, l.pos) ELSE 0
        one(typ) == Tok(l1, typ, start, line, col)
        two(typ) == Tok(Adv(l1), typ, start, line, col)
        three(typ) == Tok(Adv(Adv(l1)), typ, start, line, col)
        p1 == pk(l1)
    IN  IF b = Ch("(") THEN one("LPAREN")
        ELSE IF b = Ch(")") THEN one("RPAREN")
        ELSE IF b = Ch("{") THEN one("LBRACE")
        ELSE IF b = Ch("}") THEN one("RBRACE")
        ELSE IF b = Ch("[") THEN one("LBRACKET")
        ELSE IF b = Ch("]") THEN one("RBRACKET")
        ELSE IF b = Ch(",") THEN one("COMMA")
        ELSE IF b = Ch(";") THEN one("SEMICOLON")
        ELSE IF b = Ch("*") THEN one("STAR")
        ELSE IF b = Ch("%") THEN one("PERCENT")
        ELSE IF b = Ch("^") THEN one("CARET")
        ELSE IF b = Ch("~") THEN one("TILDE")
        ELSE IF b = Ch("?") THEN
            IF p1 = Ch("|") THEN two("QMARKPIPE")
            ELSE IF p1 = Ch("&") THEN two("QMARKAMP")
            ELSE one("QUESTION")
        ELSE IF b = Ch("+") THEN one("PLUS")
        ELSE IF b = Ch("=") THEN
            IF p1 = Ch(">") THEN two("DARROW") ELSE one("EQ")
        ELSE IF b = Ch("!") THEN
            IF p1 = Ch("=") THEN two("NEQ") ELSE one("BANG")
        ELSE IF b = Ch("<") THEN
            IF p1 = Ch("=") THEN two("LTE")
            ELSE IF p1 = Ch(">") THEN two("NEQ")
            ELSE IF p1 = Ch("@") THEN two("LTAT")
            ELSE IF p1 = Ch("<") THEN two("LSHIFT")
            ELSE one("LT")
        ELSE IF b = Ch(">") THEN
            IF p1 = Ch("=") THEN two("GTE")
            ELSE IF p1 = Ch(">") THEN two("RSHIFT")
            ELSE one("GT")
        ELSE IF b = Ch("|") THEN
            IF p1 = Ch("|") THEN two("DBAR") ELSE one("PIPE")
        ELSE IF b = Ch("&") THEN
            IF p1 = Ch("&") THEN two("DAMP") ELSE one("AMPERSAND")
        ELSE IF b = Ch("-") THEN
            IF p1 = Ch(">") THEN
                IF pk(Adv(l1)) = Ch(">") THEN three("DARROW2") ELSE two("ARROW")
            ELSE one("MINUS")
        ELSE IF b = Ch("/") THEN one("SLASH")
        ELSE IF b = Ch(".") THEN
            IF p1 = Ch(".") THEN two("DOTDOT") ELSE one("DOT")
        ELSE IF b = Ch(":") THEN
            IF isAlpha(p1) \/ p1 = Ch("_")
            THEN Tok(scan(l1, identContTable), "NAMEDPARAM", start, line, col)
            ELSE one("COLON")
        ELSE IF b = Ch("@") THEN
            IF p1 = Ch(">") THEN two("ATGT")
            ELSE IF isAlpha(p1) \/ p1 = Ch("_") \/ p1 = Ch("@")
            THEN Tok(scan(l1, identContTable), "NAMEDPARAM", start, line, col)
            ELSE one("AT")
        ELSE IF b = Ch("$") THEN
            IF isDigit(p1)
            THEN Tok(scan(l1, Ch("0")..Ch("9")), "NAMEDPARAM", start, line, col)
            ELSE IF isAlpha(p1) \/ p1 = Ch("_")
            THEN Tok(scan(l1, identContTable), "NAMEDPARAM", start, line, col)
            ELSE one("DOLLAR")
        ELSE IF b = Ch("#") THEN
            IF p1 = Ch(">") THEN
                IF pk(Adv(l1)) = Ch(">") THEN three("HASHDARROW") ELSE two("HASHARROW")
            ELSE one("HASH")
        ELSE one("ILLEGAL")

\* the loop of the block comment case, after the opening /*
RECURSIVE blockComment(_)
blockComment(l) ==
    IF l.pos + 1 < Len(l.src) THEN
        IF At(l.src, l.pos) = Ch("\n")
        THEN blockComment([l EXCEPT !.line = @ + 1, !.col = 1, !.pos = @ + 1])
        ELSE IF At(l.src, l.pos) = Ch("*") /\ At(l.src, l.pos + 1) = Ch("/")
        THEN AdvN(l, 2)
        ELSE blockComment(Adv(l))
    ELSE l

\* The horizontal-whitespace case: the inner loop stops at a newline, which
\* isSpace never accepts.
skipSpace(l) == scan(Adv(l), {c \in ByteSet : isSpace(c) /\ c # Ch("\n")})

\* the # case without its test for a following >
hashAlwaysComment(l) == FALSE

\* the test of the # case: #> and #>> are punctuation, not a comment
hashOperator(l) == l.pos + 1 < Len(l.src) /\ At(l.src, l.pos + 1) = Ch(">")

\* Lexer.Next: the next token and the lexer after it.
RECURSIVE LexerNext(_)
LexerNext(l) ==
    IF l.pos >= Len(l.src) THEN [l |-> l, tok |-> Token("EOF", <<>>, l.pos, l.line, l.col)]
    ELSE
    LET start == l.pos
        line  == l.line
        col   == l.col
        b     == At(l.src, l.pos)
        more  == l.pos + 1 < Len(l.src)
        nx    == At(l.src, l.pos + 1)
    IN  IF b = Ch("\n") THEN
            LexerNext([l EXCEPT !.pos = @ + 1, !.line = @ + 1, !.col = 1])
        ELSE IF b = Ch("\r") THEN
            LET p1 == l.pos + 1
                p2 == IF p1 < Len(l.src) /\ At(l.src, p1) = Ch("\n") THEN p1 + 1 ELSE p1
            IN  LexerNext([l EXCEPT !.pos = p2, !.line = @ + 1, !.col = 1])
        ELSE IF isSpace(b) THEN LexerNext(skipSpace(l))
        ELSE IF b = Ch("-") /\ more /\ nx = Ch("-") THEN
            LexerNext(scan(AdvN(l, 2), ByteSet \ {Ch("\n")}))
        ELSE IF b = Ch("#") THEN
            IF hashOperator(l) THEN lexPunct(l, start, line, col)
            ELSE LexerNext(scan(Adv(l), ByteSet \ {Ch("\n")}))
        ELSE IF b = Ch("/") /\ more /\ nx = Ch("*") THEN
            LexerNext(blockComment(AdvN(l, 2)))
        ELSE IF isDigit(b) \/ (b = Ch(".") /\ more /\ isDigit(nx)) THEN
            lexNumber(l, start, line, col)
        ELSE IF b = Ch("'") THEN lexQuoted(l, start, line, col, Ch("'"), "STRING")
        ELSE IF b = Ch("\"") THEN lexQuoted(l, start, line, col, Ch("\""), "DQUOTE")
        ELSE IF b = BQ THEN lexQuoted(l, start, line, col, BQ, "BACKTICK")
        ELSE IF b = Ch("x") \/ b = Ch("X") THEN
            IF more /\ nx = Ch("'") THEN lexHexLit(l, start, line, col)
            ELSE lexIdent(l, start, line, col)
        ELSE IF b = Ch("b") \/ b = Ch("B") THEN
            IF more /\ nx = Ch("'") THEN lexBitLit(l, start, line, col)
            ELSE lexIdent(l, start, line, col)
        ELSE IF b = Ch("0") /\ more /\ (nx = Ch("x") \/ nx = Ch("X")) THEN
            lexHex0x(l, start, line, col)
        ELSE IF isAlpha(b) \/ b = Ch("_") THEN lexIdent(l, start, line, col)
        ELSE lexPunct(l, start, line, col)

(***************************************************************************)
(* Parser.  A parser is [lex, tok, peek, hasPeek]; a parse function takes  *)
(* the parser and returns [p, v, err]: the parser after it, the node (or   *)
(* value) it built, and the error, Nil when there is none.  Nodes are      *)
(* records named by their node field, with the fields of the ast structs;  *)
(* a nil pointer or interface is Nil and a nil slice is <<>>.              *)
(***************************************************************************)
Nil == [node |-> "nil"]

Ok(p, v) == [p |-> p, v |-> v, err |-> Nil]

Fail(p, e) == [p |-> p, v |-> Nil, err |-> e]

\* the zero Token
NoToken == [Type |-> "ILLEGAL", Raw |-> <<>>, Pos |-> 0, Line |-> 0, Col |-> 0]

\* A value the code computes once and then uses: F of x.
Bind(x, F(_)) == F(x)

\* r, err := ...; if err != nil { return nil, err }; and then F of r
Then(r, F(_)) == Bind(r, LAMBDA x : IF x.err # Nil THEN Fail(x.p, x.err) ELSE F(x))

\* The methods the grammar calls from many places (the lexer's Next, advance,
\* parseIdent, parseExpr, parseSelect, parseStatement, ...) and the package's
\* entry points go through one recursive operator, enter, which is defined
\* after the last of them.  The definitions below are these methods as their
\* callers use them; the body of method m is the definition mBody (LexerNext
\* for the lexer's Next).
RECURSIVE enter(_, _, _)

\* p.lex.Next()
lexNext(l) == enter("Next", l, 0)

parseExpr(p, minPrec) == enter("parseExpr", p, minPrec)

parseSelect(p) == enter("parseSelect", p, 0)

parseStatement(p) == enter("parseStatement", p, 0)

NewParser(src) == enter("NewParser", src, 0)

advance(p) == enter("advance", p, 0)

parseIdent(p) == enter("parseIdent", p, 0)

parseQualifiedIdent(p) == enter("parseQualifiedIdent", p, 0)

parseDataType(p) == enter("parseDataType", p, 0)

parseTableRef(p) == enter("parseTableRef", p, 0)

ParseOne(p) == enter("ParseOne", p, 0)

ParseAll(p) == enter("ParseAll", p, 0)

ParseStatement(src) == enter("ParseStatement", src, 0)

ParseStatements(src) == enter("ParseStatements", src, 0)

\* parser.New(src) / parser.NewString(src)
NewParserBody(src) ==
    Bind(lexNext(NewLexer(src)), LAMBDA r :
    [lex |-> r.l, tok |-> r.tok, peek |-> NoToken, hasPeek |-> FALSE])

\* the next token always comes from the lexer, the lookahead slot is dropped
advanceSkipPeek(p) ==
    Bind(lexNext(p.lex), LAMBDA r : [p EXCEPT !.tok = r.tok, !.lex = r.l, !.hasPeek = FALSE])

advanceBody(p) ==
    IF p.hasPeek THEN [p EXCEPT !.tok = p.peek, !.hasPeek = FALSE]
    ELSE Bind(lexNext(p.lex), LAMBDA r : [p EXCEPT !.tok = r.tok, !.lex = r.l])

\* the parser after peekToken; the token it returns is the peek field
peekToken(p) ==
    IF ~p.hasPeek
    THEN Bind(lexNext(p.lex), LAMBDA r :
         [p EXCEPT !.peek = r.tok, !.lex = r.l, !.hasPeek = TRUE])
    ELSE p

RECURSIVE skipSemis(_)
skipSemis(p) == IF p.tok.Type = "SEMICOLON" THEN skipSemis(advance(p)) ELSE p

is(p, typ) == p.tok.Type = typ

\* errorf: the message is the format and its arguments
\* an error placed where the lexer stands, not at the current token
errorfAtLexer(p, format, args) ==
    [node |-> "ParseError", Msg |-> <<format>> \o args,
     Pos |-> p.lex.pos, Line |-> p.lex.line, Col |-> p.lex.col]

errorf(p, format, args) ==
    [node |-> "ParseError", Msg |-> <<format>> \o args,
     Pos |-> p.tok.Pos, Line |-> p.tok.Line, Col |-> p.tok.Col]

\* eat: v is the token eaten
eat(p, typ) ==
    IF p.tok.Type # typ
    THEN [p |-> p, v |-> p.tok,
          err |-> errorf(p, "expected %s, got %s (%q)", <<typ, p.tok.Type, p.tok.Raw>>)]
    ELSE Ok(advance(p), p.tok)

eatKeyword(p, kw) ==
    IF p.tok.Type # kw
    THEN Fail(p, errorf(p, "expected keyword %s, got %q", <<kw, p.tok.Raw>>))
    ELSE Ok(advance(p), Nil)

\* tryEat / tryEatKeyword: the parser after it; it returned is(p, typ)
tryEat(p, typ) == IF p.tok.Type = typ THEN advance(p) ELSE p

tryEatKeyword(p, kw) == IF p.tok.Type = kw THEN advance(p) ELSE p

hasUpperASCII(raw) == \E i \in 1..Len(raw) : raw[i] >= Ch("A") /\ raw[i] <= Ch("Z")

lowerASCIIStringArena(raw) ==
    IF Len(raw) = 0 THEN <<>>
    ELSE IF ~hasUpperASCII(raw) THEN raw
    ELSE [i \in 1..Len(raw) |-> IF raw[i] >= Ch("A") /\ raw[i] <= Ch("Z") THEN raw[i] + 32 ELSE raw[i]]

unquoteIdentArena(raw) ==
    IF Len(raw) < 2 THEN lowerASCIIStringArena(raw)
    ELSE IF (raw[1] = BQ \/ raw[1] = Ch("\"")) /\ raw[Len(raw)] = raw[1]
         THEN SubSeq(raw, 2, Len(raw) - 1)
    ELSE lowerASCIIStringArena(raw)

equalASCIIFold(raw, s) ==
    /\ Len(raw) = Len(s)
    /\ \A i \in 1..Len(raw) :
        (IF raw[i] >= Ch("A") /\ raw[i] <= Ch("Z") THEN raw[i] + 32 ELSE raw[i]) = Bytes(s)[i]

\* bytes.EqualFold on ASCII input
bytesEqualFold(raw, s) ==
    /\ Len(raw) = Len(s)
    /\ \A i \in 1..Len(raw) : lowerByte(raw[i]) = lowerByte(Bytes(s)[i])

Ident(raw, unquoted, pos) ==
    [node |-> "Ident", Raw |-> raw, Unquoted |-> unquoted, TokPos |-> pos]

parseIdentBody(p) ==
    LET t == p.tok
    IN  IF t.Type \in {"IDENT", "BACKTICK", "DQUOTE"}
        THEN Ok(advance(p), Ident(t.Raw, unquoteIdentArena(t.Raw), t.Pos))
        ELSE IF TokOf[t.Type] > TokOf["ILLEGAL"] /\ TokOf[t.Type] < TokOf["INT"]
        THEN Ok(advance(p), Ident(t.Raw, lowerASCIIStringArena(t.Raw), t.Pos))
        ELSE Fail(p, errorf(p, "expected identifier, got %q", <<t.Raw>>))

\* the loop of parseQualifiedIdent
RECURSIVE qualifiedParts(_, _)
qualifiedParts(p, parts) ==
    IF is(p, "DOT") THEN
        Bind(parseIdent(advance(p)), LAMBDA r :
        IF r.err # Nil THEN
            IF is(r.p, "STAR")
            THEN Ok(advance(r.p),
                    [node |-> "QualifiedIdent",
                     Parts |-> Append(parts, Ident(r.p.tok.Raw, Bytes("*"), r.p.tok.Pos))])
            ELSE Fail(r.p, r.err)
        ELSE qualifiedParts(r.p, Append(parts, r.v)))
    ELSE Ok(p, [node |-> "QualifiedIdent", Parts |-> parts])

parseQualifiedIdentBody(p) ==
    Then(parseIdent(p), LAMBDA r : qualifiedParts(r.p, <<r.v>>))

RECURSIVE identListLoop(_, _)
identListLoop(p, ids) ==
    Then(parseIdent(p), LAMBDA r :
    IF is(r.p, "COMMA") THEN identListLoop(advance(r.p), Append(ids, r.v))
    ELSE Ok(r.p, Append(ids, r.v)))

parseIdentList(p) == identListLoop(p, <<>>)

parseOptionalAlias(p) ==
    Bind(tryEatKeyword(p, "AS"), LAMBDA p1 :
    IF p1.tok.Type \in {"IDENT", "BACKTICK", "DQUOTE"} THEN parseIdent(p1) ELSE Ok(p1, Nil))

\* strconv.Atoi of a token's bytes with the error dropped.  The value is kept as
\* its decimal digits without leading zeros (<<>> is 0), so that the 64-bit range
\* of int is the code's: a syntax error yields 0, a value out of range the
\* largest int64.
MaxInt64Digits == Bytes("9223372036854775807")

RECURSIVE stripZeros(_)
stripZeros(d) == IF Len(d) > 0 /\ d[1] = Ch("0") THEN stripZeros(Tail(d)) ELSE d

\* a > b for digit runs of the same length
digitsGreater(a, b) ==
    \E i \in 1..Len(a) : a[i] > b[i] /\ \A j \in 1..(i - 1) : a[j] = b[j]

Atoi(raw) ==
    LET d == stripZeros(raw)
    IN  IF Len(raw) = 0 \/ \E i \in 1..Len(raw) : ~isDigit(raw[i]) THEN <<>>
        ELSE IF Len(d) > 19 \/ (Len(d) = 19 /\ digitsGreater(d, MaxInt64Digits))
        THEN MaxInt64Digits
        ELSE d

\* the ENUM/SET value loop of parseDataType
RECURSIVE enumVals(_, _)
enumVals(p, vals) ==
    IF is(p, "STRING") THEN
        Bind(advance(p), LAMBDA p1 :
        IF is(p1, "COMMA") THEN enumVals(advance(p1), Append(vals, p.tok.Raw))
        ELSE [p |-> p1, vals |-> Append(vals, p.tok.Raw)])
    ELSE [p |-> p, vals |-> vals]

\* the ( precision [, scale] | enum values ) of parseDataType, p at the LPAREN
dataTypeArgs(p, dt) ==
    Bind(advance(p), LAMBDA p2 :
    Bind(IF is(p2, "INT") THEN advance(p2) ELSE p2, LAMBDA p3 :
    Bind(tryEat(p3, "COMMA"), LAMBDA p4 :
    Bind(IF is(p3, "COMMA") /\ is(p4, "INT") THEN advance(p4) ELSE p4, LAMBDA p5 :
    Bind(enumVals(p5, <<>>), LAMBDA ev :
    Then(eat(ev.p, "RPAREN"), LAMBDA cl :
    Ok(cl.p, [dt EXCEPT !.Precision = IF is(p2, "INT") THEN Atoi(p2.tok.Raw) ELSE <<>>,
                        !.Scale = IF is(p3, "COMMA") /\ is(p4, "INT")
                                  THEN Atoi(p4.tok.Raw) ELSE <<>>,
                        !.EnumVals = ev.vals])))))))

parseDataTypeBody(p) ==
    LET dt == [node |-> "DataType", Name |-> p.tok.Raw, Precision |-> <<>>, Scale |-> <<>>,
               Unsigned |-> FALSE, Zerofill |-> FALSE, Charset |-> <<>>, Collation |-> <<>>,
               EnumVals |-> <<>>, TokPos |-> p.tok.Pos]
    IN  Bind(advance(p), LAMBDA p1 :
        Then(IF is(p1, "LPAREN") THEN dataTypeArgs(p1, dt) ELSE Ok(p1, dt), LAMBDA a :
        \* UNSIGNED / ZEROFILL
        LET uns == is(a.p, "IDENT") /\ equalASCIIFold(a.p.tok.Raw, "unsigned")
        IN  Bind(IF uns THEN advance(a.p) ELSE a.p, LAMBDA p7 :
            LET zf == is(a.p, "IDENT") /\ equalASCIIFold(p7.tok.Raw, "zerofill")
            IN  Ok(IF zf THEN advance(p7) ELSE p7,
                   [a.v EXCEPT !.Unsigned = uns, !.Zerofill = zf]))))

(***************************************************************************)
(* Expressions (Pratt / top-down operator precedence)                      *)
(***************************************************************************)
precLowest == 0
precOr == 1
precAnd == 2
precNot == 3
precComparison == 4
precBitOr == 5
precBitAnd == 6
precShift == 7
precAddSub == 8
precMulDiv == 9
precUnary == 10
precPostfix == 11

\* every binary operator on the level of the comparisons
tokenPrecFlat(t) ==
    IF t \in {"OR", "AND", "DAMP", "EQ", "NEQ", "LT", "GT", "LTE", "GTE", "ATGT", "LTAT",
              "QUESTION", "QMARKPIPE", "QMARKAMP", "PIPE", "CARET", "AMPERSAND", "LSHIFT",
              "RSHIFT", "PLUS", "MINUS", "STAR", "SLASH", "PERCENT", "DBAR", "ARROW",
              "DARROW2", "HASHARROW", "HASHDARROW"}
    THEN [prec |-> precComparison, ok |-> TRUE]
    ELSE [prec |-> 0, ok |-> FALSE]

\* tokenPrec: [prec, ok]
tokenPrec(t) ==
    IF t = "OR" THEN [prec |-> precOr, ok |-> TRUE]
    ELSE IF t \in {"AND", "DAMP"} THEN [prec |-> precAnd, ok |-> TRUE]
    ELSE IF t \in {"EQ", "NEQ", "LT", "GT", "LTE", "GTE"} THEN [prec |-> precComparison, ok |-> TRUE]
    ELSE IF t \in {"ATGT", "LTAT", "QUESTION", "QMARKPIPE", "QMARKAMP"}
         THEN [prec |-> precComparison, ok |-> TRUE]
    ELSE IF t = "PIPE" THEN [prec |-> precBitOr, ok |-> TRUE]
    ELSE IF t = "CARET" THEN [prec |-> precBitOr, ok |-> TRUE]
    ELSE IF t = "AMPERSAND" THEN [prec |-> precBitAnd, ok |-> TRUE]
    ELSE IF t \in {"LSHIFT", "RSHIFT"} THEN [prec |-> precShift, ok |-> TRUE]
    ELSE IF t \in {"PLUS", "MINUS"} THEN [prec |-> precAddSub, ok |-> TRUE]
    ELSE IF t \in {"STAR", "SLASH", "PERCENT"} THEN [prec |-> precMulDiv, ok |-> TRUE]
    ELSE IF t = "DBAR" THEN [prec |-> precAddSub, ok |-> TRUE]
    ELSE IF t \in {"ARROW", "DARROW2", "HASHARROW", "HASHDARROW"}
         THEN [prec |-> precPostfix, ok |-> TRUE]
    ELSE [prec |-> 0, ok |-> FALSE]

RECURSIVE parseExprLoop(_, _, _), parseLikeRHS(_, _, _, _),
          parseBetweenRHS(_, _, _, _), parseInRHS(_, _, _, _), parseUnary(_),
          parsePrimary(_), parsePrimaryParen(_), parseCaseExpr(_), caseWhens(_, _), parseCast(_),
          parseFuncCall(_, _), parseExprList(_), exprListLoop(_, _)

parseExprBody(p, minPrec) ==
    Then(parseUnary(p), LAMBDA r : parseExprLoop(r.p, r.v, minPrec))

\* the for loop of parseExpr, left being the expression read so far
parseExprLoop(p, left, minPrec) ==
    LET t   == p.tok.Type
        pos == p.tok.Pos
        \* left = ...; continue
        again(r) == Then(r, LAMBDA x : parseExprLoop(x.p, x.v, minPrec))
        \* Standard binary operators (a NOT that opens nothing has peeked)
        binary(p0) ==
            LET tp == tokenPrec(t)
            IN  IF ~tp.ok \/ tp.prec <= minPrec THEN Ok(p0, left)
                ELSE Then(parseExpr(advance(p0), tp.prec), LAMBDA r :
                     parseExprLoop(r.p,
                        [node |-> "BinaryExpr", Left |-> left, Right |-> r.v,
                         Op |-> t, TokPos |-> pos],
                        minPrec))
    IN  IF t = "IS" THEN
            Bind(advance(p), LAMBDA p1 :
            Then(eat(tryEatKeyword(p1, "NOT"), "NULL_KW"), LAMBDA e :
            parseExprLoop(e.p,
                [node |-> "IsNullExpr", Expr |-> left, Not |-> is(p1, "NOT"), TokPos |-> pos],
                minPrec)))
        ELSE IF t = "NOT" THEN
            Bind(peekToken(p), LAMBDA pk :
            IF pk.peek.Type = "LIKE"
            THEN again(parseLikeRHS(advance(advance(pk)), left, pos, TRUE))
            ELSE IF pk.peek.Type = "IN"
            THEN again(parseInRHS(advance(advance(pk)), left, pos, TRUE))
            ELSE IF pk.peek.Type = "BETWEEN"
            THEN again(parseBetweenRHS(advance(advance(pk)), left, pos, TRUE))
            ELSE binary(pk))
        ELSE IF t = "LIKE" THEN again(parseLikeRHS(advance(p), left, pos, FALSE))
        ELSE IF t = "IN" THEN again(parseInRHS(advance(p), left, pos, FALSE))
        ELSE IF t = "BETWEEN" THEN again(parseBetweenRHS(advance(p), left, pos, FALSE))
        ELSE binary(p)

\* [NOT] LIKE pattern [ESCAPE e], after the LIKE keyword
parseLikeRHS(p, left, pos, not) ==
    Then(parseExpr(p, precMulDiv), LAMBDA r :
    LET like == [node |-> "LikeExpr", Expr |-> left, Pattern |-> r.v, Escape |-> Nil,
                 Not |-> not, TokPos |-> pos]
    IN  IF is(r.p, "ESCAPE")
        THEN Then(parseExpr(advance(r.p), precMulDiv), LAMBDA e :
             Ok(e.p, [like EXCEPT !.Escape = e.v]))
        ELSE Ok(r.p, like))

\* [NOT] BETWEEN lo AND hi, after the BETWEEN keyword
parseBetweenRHS(p, left, pos, not) ==
    Then(parseExpr(p, precComparison + 1), LAMBDA lo :
    Then(eatKeyword(lo.p, "AND"), LAMBDA a :
    Then(parseExpr(a.p, precComparison + 1), LAMBDA hi :
    Ok(hi.p, [node |-> "BetweenExpr", Expr |-> left, Lo |-> lo.v, Hi |-> hi.v,
              Not |-> not, TokPos |-> pos]))))

parseInRHS(p, left, pos, not) ==
    LET inExpr == [node |-> "InExpr", Expr |-> left, List |-> <<>>, Subq |-> Nil,
                   Not |-> not, TokPos |-> pos]
    IN  Then(eat(p, "LPAREN"), LAMBDA o :
        LET sub == is(o.p, "SELECT") \/ is(o.p, "WITH")
        IN  Then(IF sub THEN parseSelect(o.p) ELSE parseExprList(o.p), LAMBDA r :
            Then(eat(r.p, "RPAREN"), LAMBDA c :
            Ok(c.p, IF sub THEN [inExpr EXCEPT !.Subq = r.v]
                    ELSE [inExpr EXCEPT !.List = r.v]))))

parseUnary(p) ==
    LET t   == p.tok.Type
        pos == p.tok.Pos
    IN  IF t \in {"MINUS", "PLUS", "TILDE", "NOT"} THEN
            Then(parseUnary(advance(p)), LAMBDA r :
            Ok(r.p, [node |-> "UnaryExpr", Expr |-> r.v, Op |-> t, TokPos |-> pos]))
        ELSE IF t = "EXISTS" THEN
            Then(eat(advance(p), "LPAREN"), LAMBDA o :
            Then(parseSelect(o.p), LAMBDA sq :
            Then(eat(sq.p, "RPAREN"), LAMBDA c :
            Ok(c.p, [node |-> "ExistsExpr", Subq |-> sq.v, Not |-> FALSE, TokPos |-> pos]))))
        ELSE parsePrimary(p)

\* the ( of parsePrimary: a subquery or a parenthesised expression, p after it
parsePrimaryParen(p) ==
    IF is(p, "SELECT") \/ is(p, "WITH") THEN
        Then(parseSelect(p), LAMBDA sq :
        Then(eat(sq.p, "RPAREN"), LAMBDA c :
        Ok(c.p, [node |-> "SubqueryExpr", Subq |-> sq.v, TokPos |-> sq.v.TokPos])))
    ELSE
        Then(parseExpr(p, 0), LAMBDA e :
        Then(eat(e.p, "RPAREN"), LAMBDA c :
        Ok(c.p, e.v)))

parsePrimary(p) ==
    LET t == p.tok
    IN  IF t.Type \in {"INT", "FLOAT", "STRING", "HEXLIT", "BITLIT"}
        THEN Ok(advance(p), [node |-> "Literal", Raw |-> t.Raw, Kind |-> t.Type, TokPos |-> t.Pos])
        ELSE IF t.Type = "NULL_KW" THEN Ok(advance(p), [node |-> "NullLit", TokPos |-> t.Pos])
        ELSE IF t.Type \in {"TRUE_KW", "FALSE_KW"}
        THEN Ok(advance(p), [node |-> "Literal", Raw |-> t.Raw, Kind |-> t.Type, TokPos |-> t.Pos])
        ELSE IF t.Type \in {"NAMEDPARAM", "QUESTION"}
        THEN Ok(advance(p), [node |-> "Param", Raw |-> t.Raw, TokPos |-> t.Pos])
        ELSE IF t.Type = "STAR" THEN Ok(advance(p), [node |-> "StarExpr", TokPos |-> t.Pos])
        ELSE IF t.Type = "LPAREN" THEN parsePrimaryParen(advance(p))
        ELSE IF t.Type = "CASE" THEN parseCaseExpr(p)
        ELSE IF t.Type = "CAST" THEN parseCast(p)
        ELSE IF t.Type \in {"IDENT", "BACKTICK", "DQUOTE"} THEN
            \* Could be a function call, qualified ident, or plain ident.
            Then(parseQualifiedIdent(p), LAMBDA n :
            IF is(n.p, "LPAREN") THEN parseFuncCall(n.p, n.v)
            ELSE IF Len(n.v.Parts) = 1 THEN Ok(n.p, n.v.Parts[1])
            ELSE Ok(n.p, n.v))
        ELSE IF t.Type \in {"REPLACE", "LEFT", "RIGHT", "INSERT"} THEN
            \* keywords that can be used as function names
            LET part == Ident(t.Raw, lowerASCIIStringArena(t.Raw), t.Pos)
                name == [node |-> "QualifiedIdent", Parts |-> <<part>>]
            IN  Bind(advance(p), LAMBDA p1 :
                IF is(p1, "LPAREN") THEN parseFuncCall(p1, name) ELSE Ok(p1, part))
        ELSE Fail(p, errorf(p, "unexpected token %q in expression", <<t.Raw>>))

\* the WHEN loop of parseCaseExpr
caseWhens(p, whens) ==
    IF is(p, "WHEN") THEN
        Then(parseExpr(advance(p), 0), LAMBDA cond :
        Then(eatKeyword(cond.p, "THEN"), LAMBDA th :
        Then(parseExpr(th.p, 0), LAMBDA res :
        caseWhens(res.p, Append(whens, [Cond |-> cond.v, Result |-> res.v])))))
    ELSE Ok(p, whens)

parseCaseExpr(p) ==
    LET pos == p.tok.Pos
    IN  Bind(advance(p), LAMBDA p1 :
        Then(IF ~is(p1, "WHEN") THEN parseExpr(p1, 0) ELSE Ok(p1, Nil), LAMBDA op :
        Then(caseWhens(op.p, <<>>), LAMBDA ws :
        Then(IF is(ws.p, "ELSE") THEN parseExpr(advance(ws.p), 0) ELSE Ok(ws.p, Nil), LAMBDA el :
        Then(eatKeyword(el.p, "END"), LAMBDA en :
        Ok(en.p, [node |-> "CaseExpr", Operand |-> op.v, Whens |-> ws.v, Else |-> el.v,
                  TokPos |-> pos]))))))

parseCast(p) ==
    LET pos == p.tok.Pos
    IN  Then(eat(advance(p), "LPAREN"), LAMBDA o :
        Then(parseExpr(o.p, 0), LAMBDA e :
        Then(eatKeyword(e.p, "AS"), LAMBDA a :
        Then(parseDataType(a.p), LAMBDA dt :
        Then(eat(dt.p, "RPAREN"), LAMBDA c :
        Ok(c.p, [node |-> "CastExpr", Expr |-> e.v, Type |-> dt.v, TokPos |-> pos]))))))

parseFuncCall(p, name) ==
    LET fc == [node |-> "FuncCall", Name |-> name, Args |-> <<>>, Distinct |-> FALSE,
               Star |-> FALSE, TokPos |-> p.tok.Pos]
    IN  Bind(advance(p), LAMBDA p1 :
        IF is(p1, "RPAREN") THEN Ok(advance(p1), fc)
        ELSE IF is(p1, "STAR") THEN
            Then(eat(advance(p1), "RPAREN"), LAMBDA c : Ok(c.p, [fc EXCEPT !.Star = TRUE]))
        ELSE
            Then(parseExprList(tryEatKeyword(p1, "DISTINCT")), LAMBDA args :
            Then(eat(args.p, "RPAREN"), LAMBDA c :
            Ok(c.p, [fc EXCEPT !.Distinct = is(p1, "DISTINCT"), !.Args = args.v]))))

exprListLoop(p, exprs) ==
    Then(parseExpr(p, 0), LAMBDA r :
    IF is(r.p, "COMMA") THEN exprListLoop(advance(r.p), Append(exprs, r.v))
    ELSE Ok(r.p, Append(exprs, r.v)))

parseExprList(p) == exprListLoop(p, <<>>)

RECURSIVE orderByLoop(_, _)
orderByLoop(p, items) ==
    Then(parseExpr(p, 0), LAMBDA r :
    LET item == [Expr |-> r.v, Desc |-> is(r.p, "DESC"), NullsFirst |-> Nil]
    IN  Bind(IF is(r.p, "DESC") THEN advance(r.p) ELSE tryEatKeyword(r.p, "ASC"), LAMBDA p1 :
        IF is(p1, "COMMA") THEN orderByLoop(advance(p1), Append(items, item))
        ELSE Ok(p1, Append(items, item))))

parseOrderBy(p) == orderByLoop(p, <<>>)

\* parseLimit without the exchange of the MySQL form: LIMIT x, y read as
\* count x, offset y
parseLimitNoSwap(p) ==
    Then(parseExpr(p, 0), LAMBDA count :
    LET lim == [node |-> "LimitClause", Count |-> count.v, Offset |-> Nil]
    IN  IF is(count.p, "OFFSET") \/ is(count.p, "COMMA") THEN
            Then(parseExpr(advance(count.p), 0), LAMBDA off :
            Ok(off.p, [lim EXCEPT !.Offset = off.v]))
        ELSE Ok(count.p, lim))

parseLimit(p) ==
    Then(parseExpr(p, 0), LAMBDA count :
    LET lim == [node |-> "LimitClause", Count |-> count.v, Offset |-> Nil]
    IN  IF is(count.p, "OFFSET") THEN
            Then(parseExpr(advance(count.p), 0), LAMBDA off :
            Ok(off.p, [lim EXCEPT !.Offset = off.v]))
        ELSE IF is(count.p, "COMMA") THEN
            \* MySQL: LIMIT offset, count
            Then(parseExpr(advance(count.p), 0), LAMBDA off :
            Ok(off.p, [lim EXCEPT !.Offset = lim.Count, !.Count = off.v]))
        ELSE Ok(count.p, lim))

(***************************************************************************)
(* Table references                                                        *)
(***************************************************************************)
RECURSIVE joinChain(_, _), parseJoin(_, _)

RECURSIVE tableRefsLoop(_, _)
tableRefsLoop(p, refs) ==
    IF is(p, "COMMA")
    THEN Then(parseTableRef(advance(p)), LAMBDA r : tableRefsLoop(r.p, Append(refs, r.v)))
    ELSE Ok(p, refs)

parseTableRefs(p) == Then(parseTableRef(p), LAMBDA r : tableRefsLoop(r.p, <<r.v>>))

JoinKeywords == {"INNER", "LEFT", "RIGHT", "FULL", "CROSS", "NATURAL", "JOIN"}

\* the JOIN chain loop of parseTableRef
joinChain(p, left) ==
    Then(parseJoin(p, left), LAMBDA r :
    IF r.v.node # "JoinTable" THEN Ok(r.p, r.v)
    ELSE IF r.p.tok.Type \in JoinKeywords THEN joinChain(r.p, r.v)
    ELSE Ok(r.p, r.v))

parseTableRefBody(p) ==
    IF is(p, "LPAREN") THEN
        Bind(advance(p), LAMBDA p1 :
        IF is(p1, "SELECT") \/ is(p1, "WITH") THEN
            \* ( subquery ) [alias]
            Then(parseSelect(p1), LAMBDA sq :
            Then(eat(sq.p, "RPAREN"), LAMBDA sc :
            Bind(parseOptionalAlias(sc.p), LAMBDA al :
            joinChain(al.p, [node |-> "SubqueryTable", Subq |-> sq.v,
                             Alias |-> al.v, TokPos |-> sq.v.TokPos]))))
        ELSE
            \* ( parenthesized join )
            Then(parseTableRef(p1), LAMBDA inner :
            Then(eat(inner.p, "RPAREN"), LAMBDA ic :
            joinChain(ic.p, inner.v))))
    ELSE
        \* name [alias]
        Then(parseQualifiedIdent(p), LAMBDA name :
        Bind(parseOptionalAlias(name.p), LAMBDA al :
        joinChain(al.p, [node |-> "SimpleTable", Name |-> name.v, Alias |-> al.v])))

parseJoin(p, left) ==
    LET t  == p.tok.Type
        kind == IF t = "LEFT" THEN "LeftJoin"
                ELSE IF t = "RIGHT" THEN "RightJoin"
                ELSE IF t = "FULL" THEN "FullJoin"
                ELSE IF t = "CROSS" THEN "CrossJoin"
                ELSE IF t = "NATURAL" THEN "NaturalJoin"
                ELSE "InnerJoin"
        \* the keywords before the right-hand reference
        keywords(p1) ==
            IF t \in {"INNER", "CROSS", "NATURAL"} THEN eatKeyword(p1, "JOIN")
            ELSE IF t \in {"LEFT", "RIGHT", "FULL"}
                 THEN eatKeyword(tryEatKeyword(p1, "OUTER"), "JOIN")
            ELSE Ok(p1, Nil)
    IN  IF t \notin JoinKeywords THEN Ok(p, left)
        ELSE
            Then(keywords(advance(p)), LAMBDA kw :
            Then(parseTableRef(kw.p), LAMBDA right :
            LET jt == [node |-> "JoinTable", Left |-> left, Right |-> right.v, Kind |-> kind,
                       On |-> Nil, Using |-> <<>>, TokPos |-> kw.p.tok.Pos]
            IN  IF is(right.p, "ON") THEN
                    Then(parseExpr(advance(right.p), 0), LAMBDA cond :
                    Ok(cond.p, [jt EXCEPT !.On = cond.v]))
                ELSE IF is(right.p, "USING") THEN
                    Then(eat(advance(right.p), "LPAREN"), LAMBDA uo :
                    Then(parseIdentList(uo.p), LAMBDA cols :
                    Then(eat(cols.p, "RPAREN"), LAMBDA uc :
                    Ok(uc.p, [jt EXCEPT !.Using = cols.v]))))
                ELSE Ok(right.p, jt)))

(***************************************************************************)
(* SELECT                                                                  *)
(***************************************************************************)
parseSelectColumn(p) ==
    IF is(p, "STAR") THEN
        Bind(advance(p), LAMBDA p1 :
        Ok(p1, [Expr |-> [node |-> "StarExpr", TokPos |-> p1.tok.Pos], Alias |-> Nil,
                Star |-> TRUE]))
    ELSE
        Then(parseExpr(p, 0), LAMBDA e :
        IF is(e.p, "AS") \/ e.p.tok.Type \in {"IDENT", "BACKTICK", "DQUOTE"}
        THEN Then(parseIdent(tryEatKeyword(e.p, "AS")), LAMBDA al :
             Ok(al.p, [Expr |-> e.v, Alias |-> al.v, Star |-> FALSE]))
        ELSE Ok(e.p, [Expr |-> e.v, Alias |-> Nil, Star |-> FALSE]))

RECURSIVE selectColumnsLoop(_, _)
selectColumnsLoop(p, cols) ==
    Then(parseSelectColumn(p), LAMBDA r :
    IF is(r.p, "COMMA") THEN selectColumnsLoop(advance(r.p), Append(cols, r.v))
    ELSE Ok(r.p, Append(cols, r.v)))

parseSelectColumns(p) == selectColumnsLoop(p, <<>>)

\* is(kw) && peekToken().Type == BY: the parser after the test (it peeks only
\* when the first conjunct holds) and the outcome
isKwBy(p, kw) ==
    IF is(p, kw) THEN Bind(peekToken(p), LAMBDA pk : [p |-> pk, yes |-> pk.peek.Type = "BY"])
    ELSE [p |-> p, yes |-> FALSE]

\* parseSelectCore threads the parser and the statement through the optional
\* clauses in order: each step is [p, v] with v the statement so far
parseSelectCore(p, pos) ==
    Then(eatKeyword(p, "SELECT"), LAMBDA k :
    LET stmt == [node |-> "SelectStmt", With |-> Nil, Distinct |-> is(k.p, "DISTINCT"),
                 Columns |-> <<>>, From |-> <<>>, Where |-> Nil, GroupBy |-> <<>>,
                 Having |-> Nil, OrderBy |-> <<>>, Limit |-> Nil, SetOp |-> Nil,
                 TokPos |-> pos]
    IN  Then(parseSelectColumns(tryEatKeyword(tryEatKeyword(k.p, "DISTINCT"), "ALL")), LAMBDA cols :
        \* FROM
        Then(IF is(cols.p, "FROM")
             THEN Then(parseTableRefs(advance(cols.p)), LAMBDA r :
                  Ok(r.p, [stmt EXCEPT !.Columns = cols.v, !.From = r.v]))
             ELSE Ok(cols.p, [stmt EXCEPT !.Columns = cols.v]), LAMBDA s1 :
        \* WHERE
        Then(IF is(s1.p, "WHERE")
             THEN Then(parseExpr(advance(s1.p), 0), LAMBDA r :
                  Ok(r.p, [s1.v EXCEPT !.Where = r.v]))
             ELSE s1, LAMBDA s2 :
        \* GROUP BY
        Bind(isKwBy(s2.p, "GROUP"), LAMBDA g :
        Then(IF g.yes
             THEN Then(parseExprList(advance(advance(g.p))), LAMBDA r :
                  Ok(r.p, [s2.v EXCEPT !.GroupBy = r.v]))
             ELSE Ok(g.p, s2.v), LAMBDA s3 :
        \* HAVING
        Then(IF is(s3.p, "HAVING")
             THEN Then(parseExpr(advance(s3.p), 0), LAMBDA r :
                  Ok(r.p, [s3.v EXCEPT !.Having = r.v]))
             ELSE s3, LAMBDA s4 :
        \* ORDER BY
        Bind(isKwBy(s4.p, "ORDER"), LAMBDA o :
        Then(IF o.yes
             THEN Then(parseOrderBy(advance(advance(o.p))), LAMBDA r :
                  Ok(r.p, [s4.v EXCEPT !.OrderBy = r.v]))
             ELSE Ok(o.p, s4.v), LAMBDA s5 :
        \* LIMIT / OFFSET
        IF is(s5.p, "LIMIT")
        THEN Then(parseLimit(advance(s5.p)), LAMBDA r :
             Ok(r.p, [s5.v EXCEPT !.Limit = r.v]))
        ELSE s5)))))))))

\* cur := stmt; for cur.SetOp != nil { cur = cur.SetOp.Right }; cur.SetOp = so
\* attachSetOp without the walk to the end of the chain: the operation replaces
\* the one the top select has
attachAtHead(stmt, so) == [stmt EXCEPT !.SetOp = so]

RECURSIVE attachSetOp(_, _)
attachSetOp(stmt, so) ==
    IF stmt.SetOp # Nil
    THEN [stmt EXCEPT !.SetOp = [stmt.SetOp EXCEPT !.Right = attachSetOp(stmt.SetOp.Right, so)]]
    ELSE [stmt EXCEPT !.SetOp = so]

\* the UNION / INTERSECT / EXCEPT loop of parseSelect
RECURSIVE setOpLoop(_, _)
setOpLoop(p, stmt) ==
    IF p.tok.Type \in {"UNION", "INTERSECT", "EXCEPT"} THEN
        LET op == IF is(p, "UNION") THEN "Union"
                  ELSE IF is(p, "INTERSECT") THEN "Intersect" ELSE "Except"
        IN  Bind(advance(p), LAMBDA p1 :
            Bind(tryEatKeyword(p1, "ALL"), LAMBDA p2 :
            Then(parseSelectCore(p2, p2.tok.Pos), LAMBDA right :
            setOpLoop(right.p,
                attachSetOp(stmt, [node |-> "SetOperation", Op |-> op,
                                   All |-> is(p1, "ALL"), Right |-> right.v])))))
    ELSE Ok(p, stmt)

RECURSIVE parseWith(_)
parseSelectBody(p) ==
    LET pos == p.tok.Pos
    IN  Then(IF is(p, "WITH") THEN parseWith(p) ELSE Ok(p, Nil), LAMBDA with :
        Then(parseSelectCore(with.p, pos), LAMBDA core :
        setOpLoop(core.p, [core.v EXCEPT !.With = with.v])))

\* the column list of a CTE: v is the list, <<>> when there is none
cteColumns(p) ==
    IF is(p, "LPAREN") THEN
        Bind(peekToken(p), LAMBDA pk :
        IF pk.peek.Type = "IDENT" THEN
            Then(parseIdentList(advance(pk)), LAMBDA cols :
            Then(eat(cols.p, "RPAREN"), LAMBDA cc :
            Ok(cc.p, cols.v)))
        ELSE Ok(pk, <<>>))
    ELSE Ok(p, <<>>)

\* the CTE loop of parseWith
RECURSIVE cteLoop(_, _)
cteLoop(p, w) ==
    Then(parseIdent(p), LAMBDA name :
    Then(cteColumns(name.p), LAMBDA cols :
    Then(eatKeyword(cols.p, "AS"), LAMBDA as :
    Then(eat(as.p, "LPAREN"), LAMBDA o :
    Then(parseSelect(o.p), LAMBDA sq :
    Then(eat(sq.p, "RPAREN"), LAMBDA c :
    LET w1 == [w EXCEPT !.CTEs = Append(@, [Name |-> name.v, Columns |-> cols.v, Subq |-> sq.v])]
    IN  IF is(c.p, "COMMA") THEN cteLoop(advance(c.p), w1)
        ELSE Ok(c.p, w1)))))))

parseWith(p) ==
    Bind(advance(p), LAMBDA p1 :
    cteLoop(tryEatKeyword(p1, "RECURSIVE"),
            [node |-> "WithClause", Recursive |-> is(p1, "RECURSIVE"), CTEs |-> <<>>]))

(***************************************************************************)
(* INSERT / REPLACE / UPDATE / DELETE                                      *)
(***************************************************************************)
\* the loop of parseAssignments
RECURSIVE assignmentsLoop(_, _)
assignmentsLoop(p, asgn) ==
    Then(parseIdent(p), LAMBDA col :
    Then(eat(col.p, "EQ"), LAMBDA e :
    Then(parseExpr(e.p, 0), LAMBDA val :
    LET a == Append(asgn, [Column |-> col.v, Value |-> val.v])
    IN  IF is(val.p, "COMMA") THEN assignmentsLoop(advance(val.p), a)
        ELSE Ok(val.p, a))))

parseAssignments(p) == assignmentsLoop(p, <<>>)

\* if p.is(LPAREN) { advance; parseIdentList; eat(RPAREN) }: the optional
\* parenthesized identifier list; v is the list, <<>> when there is none
parenIdentList(p) ==
    IF ~is(p, "LPAREN") THEN Ok(p, <<>>)
    ELSE Then(parseIdentList(advance(p)), LAMBDA cols :
         Then(eat(cols.p, "RPAREN"), LAMBDA c :
         Ok(c.p, cols.v)))

\* the row loop after VALUES
RECURSIVE valuesLoop(_, _)
valuesLoop(p, rows) ==
    Then(eat(p, "LPAREN"), LAMBDA o :
    Then(parseExprList(o.p), LAMBDA row :
    Then(eat(row.p, "RPAREN"), LAMBDA c :
    IF is(c.p, "COMMA") THEN valuesLoop(advance(c.p), Append(rows, row.v))
    ELSE Ok(c.p, Append(rows, row.v)))))

InsertStmt(pos, ignore, replace) ==
    [node |-> "InsertStmt", With |-> Nil, Table |-> Nil, Columns |-> <<>>, Values |-> <<>>,
     Select |-> Nil, OnDupKey |-> <<>>, OnConflictTarget |-> <<>>,
     OnConflictDoNothing |-> FALSE, OnConflictUpdate |-> <<>>, Ignore |-> ignore,
     Replace |-> replace, TokPos |-> pos]

\* the ON DUPLICATE KEY UPDATE / ON CONFLICT tail of parseInsert; p has peeked,
\* p.peek is the token after ON
insertOnTail(p, stmt) ==
    LET next == p.peek
    IN  IF next.Type = "IDENT" /\ bytesEqualFold(next.Raw, "duplicate") THEN
            Then(eatKeyword(advance(advance(advance(p))), "UPDATE"), LAMBDA du :
            Then(parseAssignments(du.p), LAMBDA da :
            Ok(da.p, [stmt EXCEPT !.OnDupKey = da.v])))
        ELSE IF next.Type = "IDENT" /\ bytesEqualFold(next.Raw, "conflict") THEN
            Then(parenIdentList(advance(advance(p))), LAMBDA tg :
            LET st == [stmt EXCEPT !.OnConflictTarget = tg.v]
            IN  IF ~(is(tg.p, "IDENT") /\ bytesEqualFold(tg.p.tok.Raw, "do"))
                THEN Fail(tg.p, errorf(tg.p, "expected DO in ON CONFLICT clause, got %q",
                                       <<tg.p.tok.Raw>>))
                ELSE
                    Bind(advance(tg.p), LAMBDA p3 :
                    IF is(p3, "IDENT") /\ bytesEqualFold(p3.tok.Raw, "nothing")
                    THEN Ok(advance(p3), [st EXCEPT !.OnConflictDoNothing = TRUE])
                    ELSE IF is(p3, "UPDATE") THEN
                        Then(eatKeyword(advance(p3), "SET"), LAMBDA us :
                        Then(parseAssignments(us.p), LAMBDA ua :
                        Ok(ua.p, [st EXCEPT !.OnConflictUpdate = ua.v])))
                    ELSE Fail(p3, errorf(p3,
                            "expected NOTHING or UPDATE in ON CONFLICT DO clause, got %q",
                            <<p3.tok.Raw>>))))
        ELSE Ok(p, stmt)

parseInsert(p) ==
    Bind(advance(p), LAMBDA p1 :
    Then(parseQualifiedIdent(tryEatKeyword(tryEatKeyword(p1, "IGNORE"), "INTO")), LAMBDA name :
    Then(parenIdentList(name.p), LAMBDA cols :
    LET stmt == [InsertStmt(p.tok.Pos, is(p1, "IGNORE"), FALSE)
                    EXCEPT !.Table = name.v, !.Columns = cols.v]
    IN  Then(IF is(cols.p, "SELECT") \/ is(cols.p, "WITH")
             THEN Then(parseSelect(cols.p), LAMBDA sq : Ok(sq.p, [stmt EXCEPT !.Select = sq.v]))
             ELSE IF is(cols.p, "VALUES")
             THEN Then(valuesLoop(advance(cols.p), <<>>), LAMBDA r :
                  Ok(r.p, [stmt EXCEPT !.Values = r.v]))
             ELSE Ok(cols.p, stmt), LAMBDA s :
        \* ON DUPLICATE KEY UPDATE
        IF is(s.p, "ON") THEN insertOnTail(peekToken(s.p), s.v) ELSE s))))

parseReplace(p) ==
    Then(parseQualifiedIdent(tryEatKeyword(advance(p), "INTO")), LAMBDA name :
    Then(parenIdentList(name.p), LAMBDA cols :
    LET stmt == [InsertStmt(p.tok.Pos, FALSE, TRUE) EXCEPT !.Table = name.v, !.Columns = cols.v]
    IN  IF is(cols.p, "VALUES")
        THEN Then(valuesLoop(advance(cols.p), <<>>), LAMBDA r :
             Ok(r.p, [stmt EXCEPT !.Values = r.v]))
        ELSE Ok(cols.p, stmt)))

\* [WHERE expr] [ORDER BY ...] [LIMIT ...]: the tail parseUpdate and parseDelete
\* share, applied to the statement built so far
whereOrderLimit(p, stmt) ==
    Then(IF is(p, "WHERE")
         THEN Then(parseExpr(advance(p), 0), LAMBDA w : Ok(w.p, [stmt EXCEPT !.Where = w.v]))
         ELSE Ok(p, stmt), LAMBDA s2 :
    Bind(isKwBy(s2.p, "ORDER"), LAMBDA o :
    Then(IF o.yes
         THEN Then(parseOrderBy(advance(advance(o.p))), LAMBDA r :
              Ok(r.p, [s2.v EXCEPT !.Order = r.v]))
         ELSE Ok(o.p, s2.v), LAMBDA s3 :
    IF is(s3.p, "LIMIT")
    THEN Then(parseLimit(advance(s3.p)), LAMBDA lim : Ok(lim.p, [s3.v EXCEPT !.Limit = lim.v]))
    ELSE s3)))

parseUpdate(p) ==
    Then(parseTableRefs(advance(p)), LAMBDA refs :
    Then(eatKeyword(refs.p, "SET"), LAMBDA set :
    Then(parseAssignments(set.p), LAMBDA asgn :
    whereOrderLimit(asgn.p,
        [node |-> "UpdateStmt", With |-> Nil, Tables |-> refs.v, Set |-> asgn.v,
         Where |-> Nil, Order |-> <<>>, Limit |-> Nil, TokPos |-> p.tok.Pos]))))

parseDelete(p) ==
    Then(parseTableRefs(tryEatKeyword(advance(p), "FROM")), LAMBDA refs :
    whereOrderLimit(refs.p,
        [node |-> "DeleteStmt", With |-> Nil, Tables |-> <<>>, From |-> refs.v,
         Where |-> Nil, Order |-> <<>>, Limit |-> Nil, TokPos |-> p.tok.Pos]))

(***************************************************************************)
(* Transactions, CALL, TRUNCATE, USE, SHOW, EXPLAIN                        *)
(***************************************************************************)
TransactionStmt(action, sp, opts, pos) ==
    [node |-> "TransactionStmt", Action |-> Bytes(action), Savepoint |-> sp,
     Options |-> opts, TokPos |-> pos]

\* p.is(TRANSACTION) || (p.is(IDENT) && equalASCIIFold(p.tok.Raw, "transaction"))
isTransaction(p) ==
    is(p, "TRANSACTION") \/ (is(p, "IDENT") /\ equalASCIIFold(p.tok.Raw, "transaction"))

\* p.is(IDENT) && equalASCIIFold(p.tok.Raw, word)
isWord(p, word) == is(p, "IDENT") /\ equalASCIIFold(p.tok.Raw, word)

\* for !p.is(SEMICOLON) && !p.is(EOF) { raws = append(raws, p.advance().Raw) }
RECURSIVE restOfStatement(_, _)
restOfStatement(p, raws) ==
    IF is(p, "SEMICOLON") \/ is(p, "EOF") THEN [p |-> p, raws |-> raws]
    ELSE restOfStatement(advance(p), Append(raws, p.tok.Raw))

parseBegin(p) ==
    Bind(advance(p), LAMBDA p1 :
    Ok(IF isTransaction(p1) THEN advance(p1) ELSE p1,
       TransactionStmt("begin", Nil, <<>>, p.tok.Pos)))

parseCommit(p) ==
    Bind(advance(p), LAMBDA p1 :
    Ok(IF isWord(p1, "work") THEN advance(p1) ELSE p1,
       TransactionStmt("commit", Nil, <<>>, p.tok.Pos)))

parseRollback(p) ==
    Bind(advance(p), LAMBDA p1 :
    Bind(IF isWord(p1, "work") THEN advance(p1) ELSE p1, LAMBDA p2 :
    IF is(p2, "TO") THEN
        Bind(advance(p2), LAMBDA p3 :
        Then(parseIdent(IF isWord(p3, "savepoint") THEN advance(p3) ELSE p3), LAMBDA sp :
        Ok(sp.p, TransactionStmt("rollback", sp.v, <<>>, p.tok.Pos))))
    ELSE Ok(p2, TransactionStmt("rollback", Nil, <<>>, p.tok.Pos))))

parseStartTransaction(p) ==
    Bind(advance(p), LAMBDA p1 :
    IF ~isTransaction(p1) THEN Fail(p1, errorf(p1, "expected TRANSACTION after START", <<>>))
    ELSE Bind(restOfStatement(advance(p1), <<>>), LAMBDA r :
         Ok(r.p, TransactionStmt("start_transaction", Nil, r.raws, p.tok.Pos))))

parseSavepoint(p) ==
    Then(parseIdent(advance(p)), LAMBDA sp :
    Ok(sp.p, TransactionStmt("savepoint", sp.v, <<>>, p.tok.Pos)))

parseReleaseSavepoint(p) ==
    Bind(advance(p), LAMBDA p1 :
    Then(parseIdent(IF isWord(p1, "savepoint") THEN advance(p1) ELSE p1), LAMBDA sp :
    Ok(sp.p, TransactionStmt("release_savepoint", sp.v, <<>>, p.tok.Pos))))

parseSetStmt(p) ==
    Bind(advance(p), LAMBDA p1 :
    IF ~isTransaction(p1)
    THEN Fail(p1, errorf(p1, "unsupported SET statement %q", <<p1.tok.Raw>>))
    ELSE Bind(restOfStatement(advance(p1), <<>>), LAMBDA r :
         Ok(r.p, TransactionStmt("set_transaction", Nil, r.raws, p.tok.Pos))))

parseCall(p) ==
    Then(parseQualifiedIdent(advance(p)), LAMBDA name :
    LET stmt == [node |-> "CallStmt", Name |-> name.v, Args |-> <<>>, TokPos |-> p.tok.Pos]
    IN  IF is(name.p, "LPAREN") THEN
            Bind(advance(name.p), LAMBDA p1 :
            Then(IF is(p1, "RPAREN") THEN Ok(p1, <<>>) ELSE parseExprList(p1), LAMBDA args :
            Then(eat(args.p, "RPAREN"), LAMBDA c :
            Ok(c.p, [stmt EXCEPT !.Args = args.v]))))
        ELSE Ok(name.p, stmt))

parseTruncate(p) ==
    Then(parseQualifiedIdent(tryEatKeyword(advance(p), "TABLE")), LAMBDA name :
    Ok(name.p, [node |-> "TruncateStmt", Table |-> name.v, TokPos |-> p.tok.Pos]))

parseUse(p) ==
    Then(parseIdent(advance(p)), LAMBDA db :
    Ok(db.p, [node |-> "UseStmt", Database |-> db.v, TokPos |-> p.tok.Pos]))

parseShow(p) ==
    Bind(advance(p), LAMBDA p1 :
    Bind(advance(p1), LAMBDA p2 :
    LET stmt == [node |-> "ShowStmt", What |-> p1.tok.Raw, Like |-> Nil, Where |-> Nil,
                 TokPos |-> p.tok.Pos]
    IN  IF is(p2, "LIKE") THEN
            Then(eat(advance(p2), "STRING"), LAMBDA t :
            Ok(t.p, [stmt EXCEPT !.Like = [node |-> "Literal", Raw |-> t.v.Raw,
                                           Kind |-> t.v.Type, TokPos |-> t.v.Pos]]))
        ELSE IF is(p2, "WHERE") THEN
            Then(parseExpr(advance(p2), 0), LAMBDA w :
            Ok(w.p, [stmt EXCEPT !.Where = w.v]))
        ELSE Ok(p2, stmt)))

parseExplain(p) ==
    Then(parseStatement(advance(p)), LAMBDA inner :
    Ok(inner.p, [node |-> "ExplainStmt", Stmt |-> inner.v, TokPos |-> p.tok.Pos]))

(***************************************************************************)
(* DDL: column definitions and constraints                                 *)
(***************************************************************************)
\* the option loop of parseCreateDatabase and parseAlterDatabase
RECURSIVE dbOptionsLoop(_, _)
dbOptionsLoop(p, opts) ==
    IF is(p, "SEMICOLON") \/ is(p, "EOF") THEN [p |-> p, opts |-> opts]
    ELSE Bind(advance(p), LAMBDA p1 :
         IF is(p1, "SEMICOLON") \/ is(p1, "EOF")
         THEN [p |-> p1, opts |-> Append(opts, [Key |-> p.tok.Raw, Value |-> <<>>])]
         ELSE Bind(tryEat(p1, "EQ"), LAMBDA p2 :
              dbOptionsLoop(advance(p2),
                            Append(opts, [Key |-> p.tok.Raw, Value |-> p2.tok.Raw]))))

\* n, _ := strconv.Atoi(string(t.Raw)); arenaNode(&p.arena, n)
IntPtr(raw) == [node |-> "int", Value |-> Atoi(raw)]

\* the optional ( length ) of an index column: v is the length, Nil without one
indexColLength(p) ==
    IF is(p, "LPAREN") THEN
        Then(eat(advance(p), "INT"), LAMBDA t :
        Then(eat(t.p, "RPAREN"), LAMBDA c :
        Ok(c.p, IntPtr(t.v.Raw))))
    ELSE Ok(p, Nil)

\* the column loop of parseIndexColDefs
RECURSIVE indexColLoop(_, _)
indexColLoop(p, cols) ==
    Then(parseIdent(p), LAMBDA name :
    Then(indexColLength(name.p), LAMBDA len :
    LET icd == [Name |-> name.v, Length |-> len.v, Desc |-> is(len.p, "DESC")]
    IN  Bind(IF is(len.p, "DESC") THEN advance(len.p) ELSE tryEatKeyword(len.p, "ASC"), LAMBDA p2 :
        IF is(p2, "COMMA") THEN indexColLoop(advance(p2), Append(cols, icd))
        ELSE Ok(p2, Append(cols, icd)))))

parseIndexColDefs(p) ==
    Then(eat(p, "LPAREN"), LAMBDA o :
    Then(indexColLoop(o.p, <<>>), LAMBDA cols :
    Then(eat(cols.p, "RPAREN"), LAMBDA c :
    Ok(c.p, cols.v))))

\* parseRefAction has no error: [p, v] with v the RefAction
parseRefAction(p) ==
    LET t == p.tok.Type
    IN  Bind(advance(p), LAMBDA p1 :
        IF t = "RESTRICT" THEN [p |-> p1, v |-> "Restrict"]
        ELSE IF t = "CASCADE" THEN [p |-> p1, v |-> "Cascade"]
        ELSE IF t = "NULL_KW" THEN [p |-> p1, v |-> "SetNull"]
        ELSE IF t = "SET" THEN
            IF is(p1, "NULL_KW") THEN [p |-> advance(p1), v |-> "SetNull"]
            ELSE IF is(p1, "DEFAULT") THEN [p |-> advance(p1), v |-> "SetDefault"]
            ELSE [p |-> p1, v |-> "NoAction"]
        ELSE IF t = "NO" THEN [p |-> advance(p1), v |-> "NoAction"]
        ELSE IF bytesEqualFold(p.tok.Raw, "no") THEN [p |-> advance(p1), v |-> "NoAction"]
        ELSE [p |-> p, v |-> "NoAction"])

\* the ON DELETE / ON UPDATE loop of parseFKRef
RECURSIVE fkOnLoop(_, _)
fkOnLoop(p, ref) ==
    IF is(p, "ON") THEN
        Bind(advance(p), LAMBDA p1 :
        IF is(p1, "DELETE")
        THEN Bind(parseRefAction(advance(p1)), LAMBDA a :
             fkOnLoop(a.p, [ref EXCEPT !.OnDelete = a.v]))
        ELSE IF is(p1, "UPDATE")
        THEN Bind(parseRefAction(advance(p1)), LAMBDA a :
             fkOnLoop(a.p, [ref EXCEPT !.OnUpdate = a.v]))
        ELSE fkOnLoop(p1, ref))
    ELSE Ok(p, ref)

parseFKRef(p) ==
    Then(eatKeyword(p, "REFERENCES"), LAMBDA k :
    Then(parseQualifiedIdent(k.p), LAMBDA table :
    Then(parenIdentList(table.p), LAMBDA cols :
    fkOnLoop(cols.p, [node |-> "ForeignKeyRef", Table |-> table.v, Columns |-> cols.v,
                      OnDelete |-> "NoAction", OnUpdate |-> "NoAction"]))))

\* if p.is(IDENT) || p.is(BACKTICK) { name, _ := p.parseIdent() }: v is the
\* name, Nil when there is none
optionalName(p) == IF is(p, "IDENT") \/ is(p, "BACKTICK") THEN parseIdent(p) ELSE Ok(p, Nil)

parseTableConstraint(p) ==
    Bind(tryEatKeyword(p, "CONSTRAINT"), LAMBDA p1 :
    Then(IF is(p, "CONSTRAINT") THEN optionalName(p1) ELSE Ok(p1, Nil), LAMBDA nm :
    LET c == [node |-> "TableConstraint", Name |-> nm.v,
              Type |-> "PrimaryKeyConstraint", Columns |-> <<>>, RefTable |-> Nil,
              RefCols |-> <<>>, OnDelete |-> "NoAction", OnUpdate |-> "NoAction",
              Check |-> Nil, IndexType |-> <<>>, TokPos |-> p.tok.Pos]
        t == nm.p.tok.Type
        \* the optional index name (none after PRIMARY KEY) and the columns
        indexCols(pn, typ) ==
            Bind(IF t = "PRIMARY" THEN Ok(pn, Nil) ELSE optionalName(pn), LAMBDA in :
            Then(parseIndexColDefs(in.p), LAMBDA cols :
            Ok(cols.p, [c EXCEPT !.Name = IF in.v = Nil THEN c.Name
                                          ELSE IF t = "UNIQUE" /\ c.Name # Nil THEN c.Name
                                          ELSE in.v,
                                 !.Type = typ, !.Columns = cols.v])))
    IN  IF t = "PRIMARY"
        THEN indexCols(tryEatKeyword(advance(nm.p), "KEY"), "PrimaryKeyConstraint")
        ELSE IF t = "UNIQUE"
        THEN indexCols(tryEatKeyword(tryEatKeyword(advance(nm.p), "KEY"), "INDEX"),
                       "UniqueConstraint")
        ELSE IF t \in {"INDEX", "KEY"} THEN indexCols(advance(nm.p), "IndexConstraint")
        ELSE IF t = "FOREIGN" THEN
            Then(eatKeyword(advance(nm.p), "KEY"), LAMBDA fk :
            Then(indexCols(fk.p, "ForeignKeyConstraint"), LAMBDA c1 :
            Then(parseFKRef(c1.p), LAMBDA ref :
            Ok(ref.p, [c1.v EXCEPT !.RefTable = ref.v.Table, !.RefCols = ref.v.Columns,
                                   !.OnDelete = ref.v.OnDelete, !.OnUpdate = ref.v.OnUpdate]))))
        ELSE IF t = "CHECK" THEN
            Then(eat(advance(nm.p), "LPAREN"), LAMBDA o :
            Then(parseExpr(o.p, 0), LAMBDA e :
            Then(eat(e.p, "RPAREN"), LAMBDA cl :
            Ok(cl.p, [c EXCEPT !.Type = "CheckConstraint", !.Check = e.v]))))
        ELSE Fail(nm.p, errorf(nm.p, "expected constraint type, got %q", <<nm.p.tok.Raw>>))))

\* the attribute loop of parseColumnDef
RECURSIVE columnAttrs(_, _)
columnAttrs(p, col) ==
    LET t == p.tok.Type
    IN  IF t = "NOT" THEN
            Then(eat(advance(p), "NULL_KW"), LAMBDA nn :
            columnAttrs(nn.p, [col EXCEPT !.NotNull = TRUE]))
        ELSE IF t = "NULL_KW" THEN columnAttrs(advance(p), col)
        ELSE IF t = "DEFAULT" THEN
            Then(parseExpr(advance(p), 0), LAMBDA def :
            columnAttrs(def.p, [col EXCEPT !.Default = def.v]))
        ELSE IF t = "AUTO_INCREMENT"
        THEN columnAttrs(advance(p), [col EXCEPT !.AutoIncrement = TRUE])
        ELSE IF t = "PRIMARY"
        THEN columnAttrs(tryEatKeyword(advance(p), "KEY"), [col EXCEPT !.PrimaryKey = TRUE])
        ELSE IF t = "UNIQUE"
        THEN columnAttrs(tryEatKeyword(advance(p), "KEY"), [col EXCEPT !.Unique = TRUE])
        ELSE IF t = "COMMENT_KW" THEN
            Then(eat(advance(p), "STRING"), LAMBDA cm :
            columnAttrs(cm.p, [col EXCEPT !.Comment =
                    [node |-> "Literal", Raw |-> cm.v.Raw, Kind |-> cm.v.Type,
                     TokPos |-> cm.v.Pos]]))
        ELSE IF t = "REFERENCES" THEN
            Then(parseFKRef(p), LAMBDA ref :
            columnAttrs(ref.p, [col EXCEPT !.References = ref.v]))
        ELSE IF t = "CHECK" THEN
            Then(eat(advance(p), "LPAREN"), LAMBDA o :
            Then(parseExpr(o.p, 0), LAMBDA e :
            Then(eat(e.p, "RPAREN"), LAMBDA c :
            columnAttrs(c.p, [col EXCEPT !.Check = e.v]))))
        ELSE IF t = "COLLATE" THEN columnAttrs(advance(advance(p)), col)
        ELSE Ok(p, col)

parseColumnDef(p) ==
    Then(parseIdent(p), LAMBDA name :
    Then(parseDataType(name.p), LAMBDA dt :
    columnAttrs(dt.p,
        [node |-> "ColumnDef", Name |-> name.v, Type |-> dt.v, NotNull |-> FALSE,
         Default |-> Nil, AutoIncrement |-> FALSE, PrimaryKey |-> FALSE,
         Unique |-> FALSE, Comment |-> Nil, References |-> Nil, Check |-> Nil,
         Generated |-> Nil, OnUpdate |-> Nil, TokPos |-> name.v.TokPos])))

isConstraintStart(p) ==
    \/ p.tok.Type \in {"PRIMARY", "UNIQUE", "INDEX", "KEY", "FOREIGN", "CHECK", "CONSTRAINT"}
    \/ is(p, "IDENT") /\ (equalASCIIFold(p.tok.Raw, "fulltext")
                            \/ equalASCIIFold(p.tok.Raw, "spatial"))

(***************************************************************************)
(* DDL: CREATE / ALTER / DROP                                              *)
(***************************************************************************)
parseGenericDDL(p, verb, obj) ==
    Bind(advance(p), LAMBDA p1 :
    Bind(IF p1.tok.Type \in {"IDENT", "BACKTICK", "DQUOTE"} THEN parseIdent(p1) ELSE Ok(p1, Nil),
         LAMBDA nm :
    Bind(restOfStatement(nm.p, <<>>), LAMBDA r :
    Ok(r.p, [node |-> "GenericDDLStmt", Verb |-> verb, Object |-> obj,
             Name |-> IF nm.err = Nil THEN nm.v ELSE Nil, TokPos |-> p.tok.Pos]))))

\* the NOT EXISTS of parseCreateDatabase, p after the IF
dbIfNotExists(p) ==
    IF ~is(p, "NOT") THEN Fail(p, errorf(p, "expected NOT in IF NOT EXISTS", <<>>))
    ELSE Bind(advance(p), LAMBDA p3 :
         IF ~is(p3, "EXISTS") THEN Fail(p3, errorf(p3, "expected EXISTS in IF NOT EXISTS", <<>>))
         ELSE Ok(advance(p3), Nil))

parseCreateDatabase(p) ==
    Bind(advance(p), LAMBDA p1 :
    Then(IF is(p1, "IF") THEN dbIfNotExists(advance(p1)) ELSE Ok(p1, Nil), LAMBDA ine :
    Then(parseIdent(ine.p), LAMBDA name :
    Bind(dbOptionsLoop(name.p, <<>>), LAMBDA o :
    Ok(o.p, [node |-> "CreateDatabaseStmt", Name |-> name.v, IfNotExists |-> is(p1, "IF"),
             Options |-> o.opts, TokPos |-> p.tok.Pos])))))

\* the loop of parseCreateTableBody; v is [cols, constraints]
RECURSIVE createTableBodyLoop(_, _, _)
createTableBodyLoop(p, cols, cons) ==
    IF is(p, "RPAREN") \/ is(p, "EOF") THEN Ok(p, [cols |-> cols, constraints |-> cons])
    ELSE LET isC == isConstraintStart(p)
         IN  Then(IF isC THEN parseTableConstraint(p) ELSE parseColumnDef(p), LAMBDA r :
             LET cols1 == IF isC THEN cols ELSE Append(cols, r.v)
                 cons1 == IF isC THEN Append(cons, r.v) ELSE cons
             IN  IF is(r.p, "COMMA") THEN createTableBodyLoop(advance(r.p), cols1, cons1)
                 ELSE Ok(r.p, [cols |-> cols1, constraints |-> cons1]))

parseCreateTableBody(p) == createTableBodyLoop(p, <<>>, <<>>)

\* the table option loop of parseCreateTable (ENGINE=..., CHARSET=...)
RECURSIVE tableOptionsLoop(_, _)
tableOptionsLoop(p, opts) ==
    IF is(p, "IDENT") \/ is(p, "ENGINE") \/ is(p, "COMMENT_KW") THEN
        Bind(tryEat(advance(p), "EQ"), LAMBDA p2 :
        tableOptionsLoop(advance(p2), Append(opts, [Key |-> p.tok.Raw, Value |-> p2.tok.Raw])))
    ELSE [p |-> p, opts |-> opts]

\* the ( columns and constraints ) of parseCreateTable, if there is one
createTableBody(p, stmt) ==
    IF is(p, "LPAREN") THEN
        Then(parseCreateTableBody(advance(p)), LAMBDA body :
        Then(eat(body.p, "RPAREN"), LAMBDA bc :
        Ok(bc.p, [stmt EXCEPT !.Columns = body.v.cols, !.Constraints = body.v.constraints])))
    ELSE Ok(p, stmt)

parseCreateTable(p, orReplace) ==
    Bind(advance(p), LAMBDA p1 :
    Then(parseQualifiedIdent(IF is(p1, "IF") THEN advance(advance(advance(p1))) ELSE p1),
         LAMBDA name :
    LET stmt == [node |-> "CreateTableStmt", Table |-> name.v, Temporary |-> FALSE,
                 IfNotExists |-> is(p1, "IF"), Columns |-> <<>>, Constraints |-> <<>>,
                 Options |-> <<>>, Select |-> Nil, Like |-> Nil, TokPos |-> p.tok.Pos]
    IN  IF is(name.p, "LIKE") THEN
            Then(parseQualifiedIdent(advance(name.p)), LAMBDA like :
            Ok(like.p, [stmt EXCEPT !.Like = like.v]))
        ELSE
            Then(createTableBody(name.p, stmt), LAMBDA body :
            Bind(tableOptionsLoop(body.p, <<>>), LAMBDA o :
            LET stmt1 == [body.v EXCEPT !.Options = o.opts]
            IN  IF is(o.p, "AS")
                THEN Then(parseSelect(advance(o.p)), LAMBDA sq :
                     Ok(sq.p, [stmt1 EXCEPT !.Select = sq.v]))
                ELSE Ok(o.p, stmt1)))))

parseCreateIndex(p) ==
    Then(parseIdent(tryEatKeyword(tryEatKeyword(p, "UNIQUE"), "INDEX")), LAMBDA name :
    Then(eatKeyword(name.p, "ON"), LAMBDA on :
    Then(parseQualifiedIdent(on.p), LAMBDA table :
    Then(parseIndexColDefs(table.p), LAMBDA cols :
    Ok(cols.p, [node |-> "CreateIndexStmt", Name |-> name.v, Table |-> table.v,
                Columns |-> cols.v,
                Type |-> IF is(p, "UNIQUE") THEN "UniqueConstraint" ELSE "IndexConstraint",
                IndexAlg |-> <<>>, TokPos |-> p.tok.Pos])))))

parseCreateView(p, orReplace) ==
    Then(parseQualifiedIdent(advance(p)), LAMBDA name :
    Then(parenIdentList(name.p), LAMBDA cols :
    Then(eatKeyword(cols.p, "AS"), LAMBDA as :
    Then(parseSelect(as.p), LAMBDA sq :
    Ok(sq.p, [node |-> "CreateViewStmt", Name |-> name.v, Columns |-> cols.v,
              Select |-> sq.v, OrReplace |-> orReplace, TokPos |-> p.tok.Pos])))))

parseCreate(p) ==
    Bind(advance(p), LAMBDA p1 :
    LET isOr == is(p1, "IDENT") /\ bytesEqualFold(p1.tok.Raw, "or")
    IN  Then(IF isOr THEN eatKeyword(advance(p1), "REPLACE") ELSE Ok(p1, Nil), LAMBDA rep :
        Bind(IF isWord(rep.p, "temporary") THEN advance(rep.p) ELSE rep.p, LAMBDA p3 :
        LET t == p3.tok.Type
        IN  IF t = "DATABASE" THEN parseCreateDatabase(p3)
            ELSE IF t = "TABLE" THEN parseCreateTable(p3, isOr)
            ELSE IF t = "VIEW" THEN parseCreateView(p3, isOr)
            ELSE IF t \in {"INDEX", "UNIQUE"} THEN parseCreateIndex(p3)
            ELSE IF t \in {"FUNCTION", "PROCEDURE", "TRIGGER"}
            THEN parseGenericDDL(p3, Bytes("create"), p3.tok.Raw)
            ELSE IF t = "IDENT" /\ equalASCIIFold(p3.tok.Raw, "schema")
            THEN parseCreateDatabase(p3)
            ELSE parseGenericDDL(p3, Bytes("create"), p3.tok.Raw))))

\* [FIRST | AFTER ident] after the column definition of ADD and MODIFY
columnPlacement(p, cmd) ==
    IF is(p, "FIRST") THEN Ok(advance(p), [cmd EXCEPT !.First = TRUE])
    ELSE IF is(p, "AFTER") THEN
        Then(parseIdent(advance(p)), LAMBDA after :
        Ok(after.p, [cmd EXCEPT !.After = after.v]))
    ELSE Ok(p, cmd)

parseAlterCmd(p) ==
    LET pos == p.tok.Pos
        t   == p.tok.Type
        unexpected(q) == Fail(q, errorf(q, "unexpected ALTER TABLE command: %q", <<q.tok.Raw>>))
        \* column definition [FIRST | AFTER ident], p2 after the optional COLUMN
        column(p2, kind) ==
            Then(parseColumnDef(p2), LAMBDA col :
            columnPlacement(col.p, [node |-> kind, Col |-> col.v,
                                    First |-> FALSE, After |-> Nil, TokPos |-> pos]))
    IN  IF t = "ADD" THEN
            Bind(tryEatKeyword(advance(p), "COLUMN"), LAMBDA p2 :
            IF isConstraintStart(p2) THEN
                Then(parseTableConstraint(p2), LAMBDA con :
                Ok(con.p, [node |-> "AddConstraintCmd", Constraint |-> con.v, TokPos |-> pos]))
            ELSE column(p2, "AddColumnCmd"))
        ELSE IF t = "DROP" THEN
            Bind(advance(p), LAMBDA p1 :
            IF is(p1, "COLUMN") \/ is(p1, "IDENT") \/ is(p1, "BACKTICK") THEN
                Then(parseIdent(tryEatKeyword(p1, "COLUMN")), LAMBDA name :
                Ok(name.p, [node |-> "DropColumnCmd", Name |-> name.v, TokPos |-> pos]))
            ELSE IF is(p1, "INDEX") \/ is(p1, "KEY") THEN
                Then(parseIdent(advance(p1)), LAMBDA idx :
                Ok(idx.p, [node |-> "DropIndexCmd", Name |-> idx.v, TokPos |-> pos]))
            ELSE unexpected(p1))
        ELSE IF t = "IDENT" THEN
            IF equalASCIIFold(p.tok.Raw, "modify")
            THEN column(tryEatKeyword(advance(p), "COLUMN"), "ModifyColumnCmd")
            ELSE unexpected(p)
        ELSE IF t = "RENAME" THEN
            Then(parseQualifiedIdent(tryEatKeyword(advance(p), "TO")), LAMBDA new :
            Ok(new.p, [node |-> "RenameTableCmd", NewName |-> new.v, TokPos |-> pos]))
        ELSE unexpected(p)

\* the command loop of parseAlter
RECURSIVE alterCmdLoop(_, _)
alterCmdLoop(p, stmt) ==
    Then(parseAlterCmd(p), LAMBDA cmd :
    LET st == [stmt EXCEPT !.Cmds = Append(@, cmd.v)]
    IN  IF is(cmd.p, "COMMA") THEN alterCmdLoop(advance(cmd.p), st)
        ELSE Ok(cmd.p, st))

parseAlterDatabase(p, pos) ==
    Then(parseIdent(advance(p)), LAMBDA name :
    Bind(dbOptionsLoop(name.p, <<>>), LAMBDA o :
    Ok(o.p, [node |-> "AlterDatabaseStmt", Name |-> name.v, Options |-> o.opts,
             TokPos |-> pos])))

parseAlter(p) ==
    Bind(advance(p), LAMBDA p1 :
    IF is(p1, "DATABASE") \/ isWord(p1, "schema") THEN parseAlterDatabase(p1, p.tok.Pos)
    ELSE IF ~is(p1, "TABLE") THEN parseGenericDDL(p1, Bytes("alter"), p1.tok.Raw)
    ELSE Then(parseQualifiedIdent(advance(p1)), LAMBDA name :
         alterCmdLoop(name.p, [node |-> "AlterTableStmt", Table |-> name.v, Cmds |-> <<>>,
                               TokPos |-> p.tok.Pos])))

\* the table list loop of parseDropTable
RECURSIVE dropTablesLoop(_, _)
dropTablesLoop(p, names) ==
    Then(parseQualifiedIdent(p), LAMBDA name :
    IF is(name.p, "COMMA") THEN dropTablesLoop(advance(name.p), Append(names, name.v))
    ELSE Ok(name.p, Append(names, name.v)))

DropTableStmt(tables, ifExists, cascade, pos) ==
    [node |-> "DropTableStmt", Tables |-> tables, IfExists |-> ifExists, Cascade |-> cascade,
     TokPos |-> pos]

parseDropTable(p) ==
    Bind(advance(p), LAMBDA p1 :
    Then(dropTablesLoop(IF is(p1, "IF") THEN advance(advance(p1)) ELSE p1, <<>>), LAMBDA names :
    Ok(tryEatKeyword(names.p, "CASCADE"),
       DropTableStmt(names.v, is(p1, "IF"), is(names.p, "CASCADE"), p.tok.Pos))))

parseDropIndex(p) ==
    Bind(advance(p), LAMBDA p1 :
    Then(parseIdent(IF is(p1, "IF") THEN advance(advance(p1)) ELSE p1), LAMBDA name :
    LET stmt == [node |-> "DropIndexStmt", Name |-> name.v, Table |-> Nil,
                 IfExists |-> is(p1, "IF"), TokPos |-> p.tok.Pos]
    IN  IF is(name.p, "ON") THEN
            Then(parseQualifiedIdent(advance(name.p)), LAMBDA table :
            Ok(table.p, [stmt EXCEPT !.Table = table.v]))
        ELSE Ok(name.p, stmt)))

\* the EXISTS of parseDropDatabase, p after the IF
dbIfExists(p) ==
    IF ~is(p, "EXISTS") THEN Fail(p, errorf(p, "expected EXISTS in IF EXISTS", <<>>))
    ELSE Ok(advance(p), Nil)

parseDropDatabase(p) ==
    Bind(advance(p), LAMBDA p1 :
    Then(IF is(p1, "IF") THEN dbIfExists(advance(p1)) ELSE Ok(p1, Nil), LAMBDA ie :
    Then(parseIdent(ie.p), LAMBDA name :
    Ok(name.p, [node |-> "DropDatabaseStmt", Name |-> name.v, IfExists |-> is(p1, "IF"),
                TokPos |-> p.tok.Pos]))))

parseDrop(p) ==
    Bind(advance(p), LAMBDA p1 :
    LET t == p1.tok.Type
    IN  IF t = "DATABASE" THEN parseDropDatabase(p1)
        ELSE IF t = "TABLE" THEN parseDropTable(p1)
        ELSE IF t = "INDEX" THEN parseDropIndex(p1)
        ELSE IF t \in {"FUNCTION", "PROCEDURE", "TRIGGER"}
        THEN parseGenericDDL(p1, Bytes("drop"), p1.tok.Raw)
        ELSE IF t = "VIEW" THEN
            Bind(advance(p1), LAMBDA p2 :
            Then(parseQualifiedIdent(p2), LAMBDA n :
            Ok(n.p, DropTableStmt(<<n.v>>, FALSE, FALSE, p2.tok.Pos))))
        ELSE IF t = "IDENT" /\ equalASCIIFold(p1.tok.Raw, "schema") THEN parseDropDatabase(p1)
        ELSE parseGenericDDL(p1, Bytes("drop"), p1.tok.Raw))

(***************************************************************************)
(* Statement dispatch, ParseOne and ParseAll                               *)
(***************************************************************************)
\* parseWithStatement without stmt.With = with: the clause is parsed and dropped
parseWithDetached(p) ==
    Then(parseWith(p), LAMBDA with : parseStatement(with.p))

parseWithStatement(p) ==
    Then(parseWith(p), LAMBDA with :
    LET t == with.p.tok.Type
    IN  IF t \in {"SELECT", "INSERT", "REPLACE", "UPDATE", "DELETE"} THEN
            Then(IF t = "SELECT" THEN parseSelect(with.p)
                 ELSE IF t = "INSERT" THEN parseInsert(with.p)
                 ELSE IF t = "REPLACE" THEN parseReplace(with.p)
                 ELSE IF t = "UPDATE" THEN parseUpdate(with.p)
                 ELSE parseDelete(with.p),
                 LAMBDA stmt : Ok(stmt.p, [stmt.v EXCEPT !.With = with.v]))
        ELSE Fail(with.p, errorf(with.p,
                    "WITH must be followed by SELECT/INSERT/UPDATE/DELETE, got %q",
                    <<with.p.tok.Raw>>)))

parseIdentLedStatement(p) ==
    IF equalASCIIFold(p.tok.Raw, "begin") THEN parseBegin(p)
    ELSE IF equalASCIIFold(p.tok.Raw, "commit") THEN parseCommit(p)
    ELSE IF equalASCIIFold(p.tok.Raw, "start") THEN parseStartTransaction(p)
    ELSE IF equalASCIIFold(p.tok.Raw, "savepoint") THEN parseSavepoint(p)
    ELSE IF equalASCIIFold(p.tok.Raw, "release") THEN parseReleaseSavepoint(p)
    ELSE IF equalASCIIFold(p.tok.Raw, "call") THEN parseCall(p)
    ELSE Fail(p, errorf(p, "unexpected token %q at start of statement", <<p.tok.Raw>>))

parseStatementBody(p) ==
    LET t == p.tok.Type
    IN  IF t = "SELECT" THEN parseSelect(p)
        ELSE IF t = "WITH" THEN parseWithStatement(p)
        ELSE IF t = "INSERT" THEN parseInsert(p)
        ELSE IF t = "REPLACE" THEN parseReplace(p)
        ELSE IF t = "UPDATE" THEN parseUpdate(p)
        ELSE IF t = "DELETE" THEN parseDelete(p)
        ELSE IF t = "CREATE" THEN parseCreate(p)
        ELSE IF t = "ALTER" THEN parseAlter(p)
        ELSE IF t = "DROP" THEN parseDrop(p)
        ELSE IF t = "TRUNCATE" THEN parseTruncate(p)
        ELSE IF t = "USE" THEN parseUse(p)
        ELSE IF t = "ROLLBACK" THEN parseRollback(p)
        ELSE IF t = "SET" THEN parseSetStmt(p)
        ELSE IF t = "SHOW" THEN parseShow(p)
        ELSE IF t = "EXPLAIN" THEN parseExplain(p)
        ELSE IF t = "IDENT" THEN parseIdentLedStatement(p)
        ELSE Fail(p, errorf(p, "unexpected token %q at start of statement", <<p.tok.Raw>>))

\* ParseOne: v is the statement, Nil when the source holds none
ParseOneBody(p) ==
    Bind(skipSemis(p), LAMBDA p1 :
    IF is(p1, "EOF") THEN Ok(p1, Nil)
    ELSE Then(parseStatement(p1), LAMBDA r : Ok(skipSemis(r.p), r.v)))

\* the loop of ParseAll: v is the statements parsed so far, also on an error
RECURSIVE parseAllLoop(_, _)
parseAllLoop(p, stmts) ==
    Bind(skipSemis(p), LAMBDA p1 :
    IF is(p1, "EOF") THEN Ok(p1, stmts)
    ELSE Bind(parseStatement(p1), LAMBDA r :
         IF r.err # Nil THEN [p |-> r.p, v |-> stmts, err |-> r.err]
         ELSE parseAllLoop(r.p, Append(stmts, r.v))))

ParseAllBody(p) == parseAllLoop(p, <<>>)

\* ParseStatement(src) and ParseStatements(src)
ParseStatementBody(src) == ParseOne(NewParser(src))

ParseStatementsBody(src) == ParseAll(NewParser(src))

enter(f, x, y) ==
    CASE f = "Next" -> LexerNext(x)
      [] f = "NewParser" -> NewParserBody(x)
      [] f = "advance" -> advanceBody(x)
      [] f = "parseIdent" -> parseIdentBody(x)
      [] f = "parseQualifiedIdent" -> parseQualifiedIdentBody(x)
      [] f = "parseDataType" -> parseDataTypeBody(x)
      [] f = "parseExpr" -> parseExprBody(x, y)
      [] f = "parseTableRef" -> parseTableRefBody(x)
      [] f = "parseSelect" -> parseSelectBody(x)
      [] f = "parseStatement" -> parseStatementBody(x)
      [] f = "ParseOne" -> ParseOneBody(x)
      [] f = "ParseAll" -> ParseAllBody(x)
      [] f = "ParseStatement" -> ParseStatementBody(x)
      [] f = "ParseStatements" -> ParseStatementsBody(x)

(***************************************************************************)
(* Tokenize: New(src), then Next until the first EOF token, each token     *)
(* appended to buf.                                                        *)
(***************************************************************************)
MaxSrcLen == 3
MaxFrags == 2

Range(f) == {f[i] : i \in DOMAIN f}

SeqsUpTo(S, n) == UNION {[1..k -> S] : k \in 0..n}

\* Focused alphabets: comments, numbers, placeholders, operators, quoting.
Alphabets ==
    << Bytes("/*-#> a\n"),
       Bytes("0xX1Fg.e+"),
       Bytes("?$:@1a_|&"),
       Bytes("!=<>|&-#@?."),
       Bytes("'\"\\bx\n") \o <<BQ, 195, 169>>,
       Bytes(" \t\f\r\na;") \o <<11, 0, 128>> >>

\* Longer pieces, concatenated up to MaxFrags at a time.
Fragments ==
    { Bytes("SELECT"), Bytes("0x1F"), Bytes("/* c */"), Bytes("/* c"), Bytes("-- c\n"),
      Bytes("# c\n"), Bytes("'it''s'"), Bytes(":name"), Bytes("@@var"), Bytes("$12"),
      Bytes("?12"), Bytes("->>"), Bytes("#>>"), Bytes("x'4A'"), Bytes("b'01'"),
      Bytes("1.5e-3"), Bytes(" "), Bytes("a$b"), Bytes("..") }

RECURSIVE FragSeqs(_)
FragSeqs(n) ==
    IF n = 0 THEN {<<>>}
    ELSE FragSeqs(n - 1) \cup {s \o f : s \in FragSeqs(n - 1), f \in Fragments}

\* the keywords as bytes
kwBytes == [i \in 1..Len(kwWords) |-> Bytes(kwWords[i][1])]

upperByte(c) == IF c >= Ch("a") /\ c <= Ch("z") THEN c - 32 ELSE c

\* Identifiers around the keyword table: every keyword in lower, upper,
\* capitalised and alternating case, with its last byte dropped, and with one
\* more identifier byte; and identifiers around the sizes of the bucket array
\* and of the scratch buffer.
IdentSources ==
    LET upper(w) == [i \in 1..Len(w) |-> upperByte(w[i])]
        capital(w) == [i \in 1..Len(w) |-> IF i = 1 THEN upperByte(w[i]) ELSE w[i]]
        alt(w) == [i \in 1..Len(w) |-> IF i % 2 = 0 THEN upperByte(w[i]) ELSE w[i]]
        W == Range(kwBytes)
        long(n) == [i \in 1..n |-> IF i % 2 = 0 THEN Ch("A") ELSE Ch("a")]
    IN  W \cup {upper(w) : w \in W} \cup {capital(w) : w \in W} \cup {alt(w) : w \in W}
          \cup {SubSeq(w, 1, Len(w) - 1) : w \in {v \in W : Len(v) > 1}}
          \cup {upper(w) \o t : w \in W, t \in {Bytes("s"), Bytes("_"), Bytes("$"), Bytes("1")}}
          \cup {long(n) : n \in {KeywordBuckets - 1, KeywordBuckets, KeywordBuckets + 1,
                                 ScratchLen - 1, ScratchLen, ScratchLen + 1}}

LexSources ==
    UNION {SeqsUpTo(Range(Alphabets[i]), MaxSrcLen) : i \in 1..Len(Alphabets)}
        \cup FragSeqs(MaxFrags) \cup IdentSources

Init ==
    /\ arg \in LexSources
    /\ lex = NewLexer(arg)
    /\ buf = <<>>
    /\ phase = "lex"
    /\ par = Nil
    /\ out = Nil
    /\ input = <<arg>>

\* One iteration of Tokenize's loop: t := l.Next(); buf = append(buf, t).
TokenizeNext ==
    /\ phase = "lex"
    /\ LET r == LexerNext(lex)
       IN  /\ lex' = r.l
           /\ buf' = Append(buf, r.tok)
           /\ phase' = IF r.tok.Type = "EOF" THEN "done" ELSE "lex"
    /\ UNCHANGED <<arg, par, out, input>>

Next == TokenizeNext

Spec == Init /\ [][Next]_vars

(***************************************************************************)
(* Properties of the token stream.                                         *)
(***************************************************************************)
\* the offset just after token t
End(t) == t.Pos + Len(t.Raw)

\* where the skipped bytes before buf[i] begin
GapStart(i) == IF i = 1 THEN 0 ELSE End(buf[i - 1])

WhiteBytes == {Ch(" "), Ch("\t"), Ch("\n"), Ch("\r"), Ch("\f"), 11}

\* the offset of the first newline at or after i, or the end of the source
RECURSIVE LineEnd(_, _)
LineEnd(src, i) ==
    IF i >= Len(src) \/ At(src, i) = Ch("\n") THEN i ELSE LineEnd(src, i + 1)

\* the offset just after the first */ at or after i, or -1 when there is none
RECURSIVE CloseAfter(_, _)
CloseAfter(src, i) ==
    IF i + 1 >= Len(src) THEN -1
    ELSE IF At(src, i) = Ch("*") /\ At(src, i + 1) = Ch("/") THEN i + 2
    ELSE CloseAfter(src, i + 1)

StartsWith(src, i, s) ==
    i + Len(s) <= Len(src) /\ Slice(src, i, i + Len(s)) = Bytes(s)

\* src[a:b] is made of whitespace bytes, line comments that run to the end of
\* their line, hash comments (a # not followed by >) and block comments; a
\* block comment that is never closed covers whatever follows its opener.
RECURSIVE IsSkipped(_, _, _)
IsSkipped(src, a, b) ==
    IF a = b THEN TRUE
    ELSE IF a > b THEN FALSE
    ELSE IF At(src, a) \in WhiteBytes THEN IsSkipped(src, a + 1, b)
    ELSE IF StartsWith(src, a, "--") THEN IsSkipped(src, LineEnd(src, a + 2), b)
    ELSE IF At(src, a) = Ch("#") /\ ~StartsWith(src, a, "#>")
         THEN IsSkipped(src, LineEnd(src, a + 1), b)
    ELSE IF StartsWith(src, a, "/*")
         THEN IF CloseAfter(src, a + 2) = -1 THEN TRUE
              ELSE IsSkipped(src, CloseAfter(src, a + 2), b)
    ELSE FALSE

\* src[a:b] holds, outside any other comment, a /* that is never closed
RECURSIVE HasUnterminated(_, _, _)
HasUnterminated(src, a, b) ==
    IF a >= b THEN FALSE
    ELSE IF At(src, a) \in WhiteBytes THEN HasUnterminated(src, a + 1, b)
    ELSE IF StartsWith(src, a, "--") THEN HasUnterminated(src, LineEnd(src, a + 2), b)
    ELSE IF At(src, a) = Ch("#") /\ ~StartsWith(src, a, "#>")
         THEN HasUnterminated(src, LineEnd(src, a + 1), b)
    ELSE IF StartsWith(src, a, "/*")
         THEN IF CloseAfter(src, a + 2) = -1 THEN TRUE
              ELSE HasUnterminated(src, CloseAfter(src, a + 2), b)
    ELSE FALSE

\* the token raws interleaved with the skipped bytes before each of them
RECURSIVE Rebuild(_)
Rebuild(i) ==
    IF i = 0 THEN <<>>
    ELSE Rebuild(i - 1) \o Slice(arg, GapStart(i), buf[i].Pos) \o buf[i].Raw

\* C1: every token's Raw is src[Pos : Pos+len(Raw)]; tokens come in
\* increasing, non-overlapping order; the bytes between them are skipped
\* whitespace or comments; and once the end-of-input token is out, the raws
\* interleaved with the skipped gaps are the source.
C1_TokensTileSource ==
    /\ \A i \in 1..Len(buf) :
        /\ buf[i].Pos >= 0 /\ End(buf[i]) <= Len(arg)
        /\ buf[i].Raw = Slice(arg, buf[i].Pos, End(buf[i]))
        /\ GapStart(i) <= buf[i].Pos
        /\ IsSkipped(arg, GapStart(i), buf[i].Pos)
    /\ \A i \in 1..(Len(buf) - 1) : buf[i].Pos <= buf[i + 1].Pos
    /\ phase = "done" => Rebuild(Len(buf)) = arg

C1_Witness ==
    /\ phase = "done"
    /\ Len(buf) >= 3
    /\ \E i \in 2..Len(buf) : buf[i].Pos > GapStart(i) + 1
    /\ \E i \in 1..Len(buf) : buf[i].Type = "BITLIT"

\* C2: of two successive tokens, up to and including the first end-of-input
\* token, the later has the strictly greater Pos, and every token other than
\* end-of-input has at least one byte.
C2_PosStrictlyIncreasing ==
    /\ \A i \in 1..(Len(buf) - 1) : buf[i + 1].Pos > buf[i].Pos
    /\ \A i \in 1..Len(buf) : buf[i].Type # "EOF" => Len(buf[i].Raw) >= 1
    /\ \A i \in 1..Len(buf) : buf[i].Type = "EOF" => i = Len(buf) /\ phase = "done"

C2_Witness ==
    /\ phase = "done"
    /\ Len(buf) >= 4
    /\ \E i \in 1..Len(buf) : buf[i].Type \in {"STRING", "DQUOTE", "BACKTICK"}

\* C3: once a block comment is opened and never closed, no token other than
\* end-of-input follows it.
C3_UnterminatedCommentToEnd ==
    \A i \in 1..Len(buf) :
        HasUnterminated(arg, GapStart(i), buf[i].Pos) => buf[i].Type = "EOF"

\* the length of the run of bytes of S starting at offset i
RECURSIVE RunLen(_, _, _)
RunLen(src, i, S) ==
    IF i < Len(src) /\ At(src, i) \in S THEN 1 + RunLen(src, i + 1, S) ELSE 0

HexDigits == Range(Bytes("0123456789abcdefABCDEF"))

Digits == Range(Bytes("0123456789"))

\* C4: a token that starts at 0x or 0X is one HEXLIT whose raw is the prefix
\* and the maximal run of hexadecimal digits after it.
C4_HexPrefixIsHexLit ==
    \A i \in 1..Len(buf) :
        (StartsWith(arg, buf[i].Pos, "0x") \/ StartsWith(arg, buf[i].Pos, "0X"))
            => /\ buf[i].Type = "HEXLIT"
               /\ Len(buf[i].Raw) = 2 + RunLen(arg, buf[i].Pos + 2, HexDigits)

\* the length of the placeholder that starts at offset i, 0 when none does:
\* ? and ?N, $N, :name, @name, $name
PlaceholderLen(src, i) ==
    LET c  == At(src, i)
        nm == i + 1 < Len(src) /\ isAlpha(At(src, i + 1))
        dg == i + 1 < Len(src) /\ At(src, i + 1) \in Digits
    IN  IF c = Ch("?") THEN
            IF StartsWith(src, i, "?|") \/ StartsWith(src, i, "?&") THEN 0
            ELSE 1 + RunLen(src, i + 1, Digits)
        ELSE IF c = Ch("$") /\ dg THEN 1 + RunLen(src, i + 1, Digits)
        ELSE IF c \in {Ch("$"), Ch(":"), Ch("@")} /\ nm
             THEN 1 + RunLen(src, i + 1, identContTable)
        ELSE 0

\* C5: a token that starts at a placeholder is the whole placeholder, number
\* or name included.
C5_PlaceholderIsOneToken ==
    \A i \in 1..Len(buf) :
        (buf[i].Type # "EOF" /\ PlaceholderLen(arg, buf[i].Pos) > 0)
            => /\ buf[i].Type \in {"QUESTION", "NAMEDPARAM"}
               /\ Len(buf[i].Raw) = PlaceholderLen(arg, buf[i].Pos)

\* the multi-character operators and their kinds
Operators ==
    << <<"!=", "NEQ">>, <<"<>", "NEQ">>, <<"<=", "LTE">>, <<">=", "GTE">>,
       <<"<<", "LSHIFT">>, <<">>", "RSHIFT">>, <<"||", "DBAR">>, <<"&&", "DAMP">>,
       <<"=>", "DARROW">>, <<"->", "ARROW">>, <<"->>", "DARROW2">>,
       <<"#>", "HASHARROW">>, <<"#>>", "HASHDARROW">>, <<"@>", "ATGT">>, <<"<@", "LTAT">>,
       <<"?|", "QMARKPIPE">>, <<"?&", "QMARKAMP">>, <<"..", "DOTDOT">> >>

\* the operators that start at offset i
OpsAt(src, i) == {k \in 1..Len(Operators) : StartsWith(src, i, Operators[k][1])}

\* the longest of them
LongestOp(src, i) ==
    CHOOSE k \in OpsAt(src, i) :
        \A j \in OpsAt(src, i) : Len(Operators[j][1]) <= Len(Operators[k][1])

\* the first offset at or after the lexer's position before buf[i] that is not
\* whitespace
AfterWhite(i) == GapStart(i) + RunLen(arg, GapStart(i), WhiteBytes)

\* C6: a token that starts at a multi-character operator is the longest
\* operator that starts there, with that operator's kind; where the lexer
\* meets #> the next token starts right there, and where it meets a # not
\* followed by > the next token starts no earlier than the end of that line.
C6_OperatorsLongestMatch ==
    \A i \in 1..Len(buf) :
        /\ (buf[i].Type # "EOF" /\ OpsAt(arg, buf[i].Pos) # {})
            => /\ buf[i].Raw = Bytes(Operators[LongestOp(arg, buf[i].Pos)][1])
               /\ buf[i].Type = Operators[LongestOp(arg, buf[i].Pos)][2]
        /\ StartsWith(arg, AfterWhite(i), "#>")
            => /\ buf[i].Pos = AfterWhite(i)
               /\ buf[i].Type \in {"HASHARROW", "HASHDARROW"}
        /\ (StartsWith(arg, AfterWhite(i), "#") /\ ~StartsWith(arg, AfterWhite(i), "#>"))
            => buf[i].Pos >= LineEnd(arg, AfterWhite(i))

C6_Witness ==
    /\ phase = "done"
    /\ \E i \in 1..Len(buf) : buf[i].Type = "HASHARROW"
    /\ \E i \in 1..Len(buf) : StartsWith(arg, GapStart(i), "#") /\ buf[i].Pos > GapStart(i)

\* raw matches the identifier grammar: a letter or _, then letters, digits, _, $
IsIdentifier(raw) ==
    /\ Len(raw) >= 1
    /\ raw[1] \in Range(Bytes("abcdefghijklmnopqrstuvwxyzABCDEFGHIJKLMNOPQRSTUVWXYZ_"))
    /\ \A i \in 2..Len(raw) :
        raw[i] \in Range(Bytes("abcdefghijklmnopqrstuvwxyzABCDEFGHIJKLMNOPQRSTUVWXYZ_0123456789$"))

AsciiLower(raw) == [i \in 1..Len(raw) |-> IF raw[i] \in 65..90 THEN raw[i] + 32 ELSE raw[i]]

\* the kinds the keyword list declares
KeywordKinds ==
    {n \in DOMAIN TokOf : TokOf[n] > TokOf["kwSTART"] /\ n # "kwEND"}

LongestKeyword ==
    CHOOSE n \in {Len(kwBytes[i]) : i \in 1..Len(kwBytes)} :
        \A i \in 1..Len(kwBytes) : Len(kwBytes[i]) <= n

\* C7: an identifier-shaped token has kind K exactly when its bytes,
\* ASCII-lowercased, are the keyword of K, and kind IDENT otherwise; K is a
\* declared keyword kind; anything longer than the longest keyword is IDENT.
C7_KeywordLookup ==
    \A i \in 1..Len(buf) :
        IsIdentifier(buf[i].Raw) =>
            LET M == {k \in 1..Len(kwWords) : kwBytes[k] = AsciiLower(buf[i].Raw)}
            IN  /\ buf[i].Type \in KeywordKinds \cup {"IDENT"}
                /\ \A k \in M : buf[i].Type = kwWords[k][2]
                /\ M = {} => buf[i].Type = "IDENT"
                /\ Len(buf[i].Raw) > LongestKeyword => buf[i].Type = "IDENT"

C7_Witness ==
    /\ \E i \in 1..Len(buf) :
        /\ buf[i].Type = "AUTO_INCREMENT"
        /\ buf[i].Raw # AsciiLower(buf[i].Raw)
    /\ phase = "done"

(***************************************************************************)
(* ParseStatements(src) and ParseStatement(src): the parser is built on    *)
(* the source and ParseAll / ParseOne runs to its return.                  *)
(***************************************************************************)
ParseAllCall ==
    /\ phase = "ParseAll"
    /\ LET r == ParseAll(par)
       IN  /\ par' = r.p
           /\ out' = [v |-> r.v, err |-> r.err]
    /\ phase' = "done"
    /\ UNCHANGED <<arg, lex, buf, input>>

ParseOneCall ==
    /\ phase = "ParseOne"
    /\ LET r == ParseOne(par)
       IN  /\ par' = r.p
           /\ out' = [v |-> r.v, err |-> r.err]
    /\ phase' = "done"
    /\ UNCHANGED <<arg, lex, buf, input>>

\* the state after NewString(src), before the call
Built(src, call, pieces) ==
    /\ arg = src
    /\ par = NewParser(src)
    /\ out = Nil
    /\ phase = call
    /\ input = pieces
    /\ lex = Nil
    /\ buf = <<>>

(***************************************************************************)
(* Sources of several statements: up to MaxStmts statements of StmtPool,   *)
(* one separator between them, semicolons before and after.                *)
(***************************************************************************)
MaxStmts == 2

\* statements of the grammar, each with the kind of tree it stands for
StmtPool ==
    << [text |-> "SELECT a, b FROM t WHERE a = 1 ORDER BY b LIMIT 2", kind |-> "SelectStmt"],
       [text |-> "INSERT INTO t (a) VALUES (1), (2)", kind |-> "InsertStmt"],
       [text |-> "UPDATE t SET a = 1 WHERE b = 'x;y'", kind |-> "UpdateStmt"],
       [text |-> "DELETE FROM t WHERE a = 1", kind |-> "DeleteStmt"],
       [text |-> "CREATE TABLE t (id INT)", kind |-> "CreateTableStmt"],
       [text |-> "DROP TABLE t", kind |-> "DropTableStmt"],
       [text |-> "REPLACE INTO t SELECT 1", kind |-> "InsertStmt"],
       [text |-> "begin", kind |-> "TransactionStmt"],
       [text |-> "ALTER TABLE t ADD COLUMN c INT", kind |-> "AlterTableStmt"],
       [text |-> "CREATE INDEX i ON t (a)", kind |-> "CreateIndexStmt"],
       [text |-> "TRUNCATE TABLE t", kind |-> "TruncateStmt"],
       [text |-> "EXPLAIN SELECT 1", kind |-> "ExplainStmt"] >>

Separators == {";", ";;", " ;\n; "}

Leading == {"", ";; "}

Trailing == {"", " ;;"}

RECURSIVE JoinStmts(_, _)
JoinStmts(idx, sep) ==
    IF Len(idx) = 0 THEN ""
    ELSE IF Len(idx) = 1 THEN StmtPool[idx[1]].text
    ELSE StmtPool[idx[1]].text \o sep \o JoinStmts(Tail(idx), sep)

StmtSource(in) == Bytes(in.lead \o JoinStmts(in.stmts, in.sep) \o in.trail)

StmtInputs ==
    [lead : Leading, sep : Separators, trail : Trailing,
     stmts : SeqsUpTo(1..Len(StmtPool), MaxStmts)]

InitParseAll == \E in \in StmtInputs : Built(StmtSource(in), "ParseAll", in)

SpecParseAll == InitParseAll /\ [][ParseAllCall]_vars

(***************************************************************************)
(* Properties of ParseAll.                                                 *)
(***************************************************************************)
\* the kinds of the statements put into the source, in source order
GivenKinds == [i \in 1..Len(input.stmts) |-> StmtPool[input.stmts[i]].kind]

\* C8: ParseAll returns exactly one tree per statement of the source: for k
\* statements of the grammar separated by one or more semicolons, with any
\* semicolons before and after, the result holds exactly k statements, in source
\* order, and no error; a source of semicolons only, or of nothing, yields no
\* statement and no error.
C8_OneTreePerStatement ==
    phase = "done" =>
        /\ out.err = Nil
        /\ Len(out.v) = Len(input.stmts)
        /\ [i \in 1..Len(out.v) |-> out.v[i].node] = GivenKinds

(***************************************************************************)
(* Statements that end in a LIMIT clause: a statement of LimitContexts,    *)
(* then LIMIT and one or two expressions of ExprPool in one of the forms   *)
(* "LIMIT a OFFSET b", "LIMIT b, a" and "LIMIT a".                         *)
(***************************************************************************)
\* the statements parseSelectCore, parseUpdate and parseDelete read a LIMIT for
LimitContexts == {"SELECT x FROM t", "UPDATE t SET x = 1 WHERE y", "DELETE FROM t ORDER BY y"}

ExprPool ==
    << "20", "x + 1", "f(a, b)", "a IN (1, 2)", "CASE WHEN a THEN -1 ELSE n END" >>

LimitForms == {"offset", "comma", "none"}

LimitKeyword == " LIMIT "

\* the text after LIMIT
LimitTail(in) ==
    IF in.form = "offset" THEN ExprPool[in.a] \o " OFFSET " \o ExprPool[in.b]
    ELSE IF in.form = "comma" THEN ExprPool[in.b] \o ", " \o ExprPool[in.a]
    ELSE ExprPool[in.a]

LimitSource(in) == Bytes(in.ctx \o LimitKeyword \o LimitTail(in))

\* "LIMIT a" has no b: it is given as b = a
LimitInputs ==
    {in \in [ctx : LimitContexts, form : LimitForms,
             a : 1..Len(ExprPool), b : 1..Len(ExprPool)] : in.form = "none" => in.b = in.a}

InitLimit == \E in \in LimitInputs : Built(LimitSource(in), "ParseOne", in)

SpecLimit == InitLimit /\ [][ParseOneCall]_vars

(***************************************************************************)
(* Properties of parseLimit.                                               *)
(***************************************************************************)
\* the offset in the source of the first expression after LIMIT
LimitBase(in) == Len(in.ctx) + Len(LimitKeyword)

\* the offsets of a and of b in the source
PosA(in) == IF in.form = "comma" THEN LimitBase(in) + Len(ExprPool[in.b]) + 2 ELSE LimitBase(in)

PosB(in) == IF in.form = "offset" THEN LimitBase(in) + Len(ExprPool[in.a]) + 8 ELSE LimitBase(in)

\* the tree of an expression that stands at offset pos of a source: parseExpr(0)
\* on the expression alone, pos blanks before it
ExprAt(text, pos) == parseExpr(NewParser([i \in 1..pos |-> Ch(" ")] \o Bytes(text)), 0).v

\* C9: LIMIT a OFFSET b and LIMIT b, a parse to the same limit clause, count the
\* tree of a and offset the tree of b; every limit clause has a count, and it
\* has no offset exactly when neither OFFSET nor a comma follows the first
\* expression.
C9_LimitCountOffset ==
    phase = "done" =>
        /\ out.err = Nil
        /\ out.v.Limit # Nil
        /\ out.v.Limit.node = "LimitClause"
        /\ out.v.Limit.Count # Nil
        /\ out.v.Limit.Count = ExprAt(ExprPool[input.a], PosA(input))
        /\ IF input.form = "none" THEN out.v.Limit.Offset = Nil
           ELSE /\ out.v.Limit.Offset # Nil
                /\ out.v.Limit.Offset = ExprAt(ExprPool[input.b], PosB(input))

C9_Witness ==
    /\ phase = "done"
    /\ input.form = "comma"
    /\ input.a # input.b
    /\ out.v.node = "DeleteStmt"
    /\ out.v.Limit.Offset # Nil
    /\ out.v.Limit.Count # out.v.Limit.Offset

(***************************************************************************)
(* Statements that start with a WITH clause: a clause of WithPool and,     *)
(* after one blank, a text of WithTails.                                   *)
(***************************************************************************)
WithPool ==
    << "WITH t AS (SELECT 1)",
       "WITH RECURSIVE t (a) AS (SELECT 1), u AS (SELECT 2)",
       "WITH t (a, b) AS (SELECT 1, 2 UNION SELECT 3, 4)",
       "with t as (select a from u where a > 1 limit 2)" >>

WithTails ==
    << "SELECT * FROM t",
       "select a FROM t WHERE a = 1 LIMIT 2",
       "SELECT 1 UNION SELECT 2",
       "INSERT INTO x SELECT * FROM t",
       "INSERT INTO x (a) VALUES (1)",
       "REPLACE INTO x VALUES (1)",
       "REPLACE INTO x (a) SELECT a FROM t",
       "UPDATE x SET a = 1",
       "update x SET a = 1 WHERE b = 2",
       "DELETE FROM x WHERE a = 1",
       "Delete FROM x",
       "",
       ";",
       "(SELECT 1)",
       "WITH u AS (SELECT 1) SELECT 1",
       "CREATE TABLE x (a INT)",
       "DROP TABLE x",
       "TRUNCATE TABLE x",
       "EXPLAIN SELECT 1",
       "VALUES (1)",
       "SET a = 1",
       "begin",
       "x",
       "1" >>

WithSource(in) == Bytes(WithPool[in.with] \o " " \o WithTails[in.tail])

WithInputs == [with : 1..Len(WithPool), tail : 1..Len(WithTails)]

InitWith == \E in \in WithInputs : Built(WithSource(in), "ParseOne", in)

SpecWith == InitWith /\ [][ParseOneCall]_vars

(***************************************************************************)
(* Properties of parseWithStatement.                                       *)
(***************************************************************************)
\* the kind of the first token of a text
FirstToken(text) == LexerNext(NewLexer(Bytes(text))).tok.Type

\* the WITH clause of the source, parsed on its own
GivenWith == parseWith(NewParser(Bytes(WithPool[input.with]))).v

\* C10: a WITH clause followed by SELECT, INSERT, REPLACE, UPDATE or DELETE
\* parses to a statement of that kind (REPLACE: an insert with the replace flag)
\* that carries the WITH clause; no statement kind of its own stands for WITH;
\* any other token after the clause is a parse error.
C10_WithIsAttached ==
    phase = "done" =>
        LET t == FirstToken(WithTails[input.tail])
        IN  IF t \in {"SELECT", "INSERT", "REPLACE", "UPDATE", "DELETE"} THEN
                /\ out.err = Nil
                /\ out.v.node = (CASE t = "SELECT" -> "SelectStmt"
                                   [] t \in {"INSERT", "REPLACE"} -> "InsertStmt"
                                   [] t = "UPDATE" -> "UpdateStmt"
                                   [] t = "DELETE" -> "DeleteStmt")
                /\ out.v.node = "InsertStmt" => out.v.Replace = (t = "REPLACE")
                /\ out.v.With # Nil
                /\ out.v.With.node = "WithClause"
                /\ out.v.With = GivenWith
            ELSE /\ out.err # Nil
                 /\ out.v = Nil

C10_Witness ==
    /\ phase = "done"
    /\ FirstToken(WithTails[input.tail]) = "REPLACE"
    /\ out.v.node = "InsertStmt"
    /\ out.v.Replace
    /\ Len(out.v.With.CTEs) = 2

(***************************************************************************)
(* Sources of set operations: s0 op1 s1 ... opk sk with k <= MaxSetOps,    *)
(* the selects from SelectPool, the operators from SetOpPool.              *)
(***************************************************************************)
MaxSetOps == 2

SelectPool ==
    << "SELECT id FROM a", "select x, 1 from b where x > 1 order by x limit 3" >>

SetOpPool ==
    << [text |-> "UNION", op |-> "Union", all |-> FALSE],
       [text |-> "UNION ALL", op |-> "Union", all |-> TRUE],
       [text |-> "intersect", op |-> "Intersect", all |-> FALSE],
       [text |-> "EXCEPT  all", op |-> "Except", all |-> TRUE] >>

SetOpInputs ==
    UNION {[sels : [1..(k + 1) -> 1..Len(SelectPool)], ops : [1..k -> 1..Len(SetOpPool)]] :
           k \in 0..MaxSetOps}

\* the source from select i on
RECURSIVE SetOpText(_, _)
SetOpText(in, i) ==
    SelectPool[in.sels[i]] \o
    (IF i > Len(in.ops) THEN ""
     ELSE "\n" \o SetOpPool[in.ops[i]].text \o " " \o SetOpText(in, i + 1))

SetOpSource(in) == Bytes(SetOpText(in, 1))

InitSetOps == \E in \in SetOpInputs : Built(SetOpSource(in), "ParseOne", in)

SpecSetOps == InitSetOps /\ [][ParseOneCall]_vars

(***************************************************************************)
(* Properties of the set operation chain.                                  *)
(***************************************************************************)
\* the offset in the source of select i
SelectPos(in, i) == Len(SetOpText(in, 1)) - Len(SetOpText(in, i))

\* the tree of a select that stands alone at offset pos of a source
SelectAt(text, pos) == ParseStatement([i \in 1..pos |-> Ch(" ")] \o Bytes(text)).v

\* the selects met by following SetOp.Right from stmt, stmt first, each without
\* its own set operation, and the operations met, as [op, all]
RECURSIVE ChainSelects(_)
ChainSelects(stmt) ==
    <<[stmt EXCEPT !.SetOp = Nil]>> \o
    (IF stmt.SetOp = Nil THEN <<>> ELSE ChainSelects(stmt.SetOp.Right))

RECURSIVE ChainOps(_)
ChainOps(stmt) ==
    IF stmt.SetOp = Nil THEN <<>>
    ELSE <<[op |-> stmt.SetOp.Op, all |-> stmt.SetOp.All]>> \o ChainOps(stmt.SetOp.Right)

\* C11: s0 op1 s1 ... opk sk parses to a linear chain: the top select is s0,
\* following SetOp.Right meets s1 ... sk in source order with the operators
\* op1 ... opk (and their ALL), and sk has no set operation, so the walk ends
\* after exactly k steps.
C11_SetOpChain ==
    phase = "done" =>
        /\ out.err = Nil
        /\ out.v.node = "SelectStmt"
        /\ Len(ChainOps(out.v)) = Len(input.ops)
        /\ ChainOps(out.v) = [i \in 1..Len(input.ops) |->
                                [op |-> SetOpPool[input.ops[i]].op,
                                 all |-> SetOpPool[input.ops[i]].all]]
        /\ ChainSelects(out.v) = [i \in 1..Len(input.sels) |->
                                    SelectAt(SelectPool[input.sels[i]], SelectPos(input, i))]

C11_Witness ==
    /\ phase = "done"
    /\ Len(input.ops) = 2
    /\ input.ops[1] # input.ops[2]
    /\ input.sels[2] # input.sels[3]
    /\ out.v.SetOp.Right.SetOp # Nil
    /\ out.v.SetOp.Right.SetOp.Right.SetOp = Nil

(***************************************************************************)
(* The string form of a ParseError.  errorf keeps the format and its       *)
(* arguments in Msg; Sprintf turns them into the bytes of the message:     *)
(* %s of a token type is TokenType.String(), %q of a token's bytes is      *)
(* strconv.Quote of them.                                                  *)
(***************************************************************************)
\* tokenNames, indexed by TokOf + 1; the array ends at QMARKAMP
tokenNames ==
    << "ILLEGAL", "EOF", "COMMENT", "WHITESPACE", "IDENT", "INT", "FLOAT",
       "STRING", "BACKTICK", "DQUOTE", "HEXLIT", "BITLIT", "NAMEDPARAM", "(",
       ")", "{", "}", "[", "]", ",", ";", ":", ".", "..", "*", "+", "-", "/",
       "%", "&", "|", "^", "~", "!", "?", "@", "#", "$", "=", "!=", "<", ">",
       "<=", ">=", "<<", ">>", "||", "&&", "=>", "->", "->>", "#>", "#>>",
       "@>", "<@", "?|", "?&" >>

\* TokenType.String()
String(t) ==
    IF TokOf[t] < Len(tokenNames) THEN tokenNames[TokOf[t] + 1] ELSE "UNKNOWN"

\* strconv.Itoa of n >= 0, as bytes
RECURSIVE Itoa(_)
Itoa(n) ==
    IF n < 10 THEN <<Ch("0") + n>>
    ELSE Itoa(n \div 10) \o <<Ch("0") + (n % 10)>>

hexByte(d) == IF d < 10 THEN Ch("0") + d ELSE Ch("a") + (d - 10)

\* what strconv.Quote writes for one byte (a byte >= 0x80 is taken as not
\* part of a valid UTF-8 sequence)
quoteByte(c) ==
    CASE c = Ch("\"") -> Bytes("\\\"")
      [] c = Ch("\\") -> Bytes("\\\\")
      [] c = 7 -> Bytes("\\a")
      [] c = 8 -> Bytes("\\b")
      [] c = Ch("\f") -> Bytes("\\f")
      [] c = Ch("\n") -> Bytes("\\n")
      [] c = Ch("\r") -> Bytes("\\r")
      [] c = Ch("\t") -> Bytes("\\t")
      [] c = 11 -> Bytes("\\v")
      [] OTHER -> IF c >= 32 /\ c < 127 THEN <<c>>
                  ELSE Bytes("\\x") \o <<hexByte(c \div 16), hexByte(c % 16)>>

RECURSIVE quoteBytes(_)
quoteBytes(b) == IF b = <<>> THEN <<>> ELSE quoteByte(Head(b)) \o quoteBytes(Tail(b))

\* %q
Quote(b) == <<Ch("\"")>> \o quoteBytes(b) \o <<Ch("\"")>>

\* fmt.Sprintf for the verbs errorf is called with
RECURSIVE Sprintf(_, _)
Sprintf(format, args) ==
    IF format = <<>> THEN <<>>
    ELSE IF Head(format) = Ch("%") /\ Len(format) >= 2 /\ args # <<>>
    THEN (IF format[2] = Ch("q") THEN Quote(Head(args))
          ELSE Bytes(String(Head(args))))
         \o Sprintf(SubSeq(format, 3, Len(format)), Tail(args))
    ELSE <<Head(format)>> \o Sprintf(Tail(format), args)

\* ParseError.Msg
Msg(e) == Sprintf(Bytes(Head(e.Msg)), Tail(e.Msg))

\* ParseError.Error()
Error(e) ==
    Bytes("parse error at line ") \o Itoa(e.Line) \o Bytes(" col ") \o Itoa(e.Col)
    \o Bytes(": ") \o Msg(e)

(***************************************************************************)
(* Sources that fail: white space or comments, statements that parse, a    *)
(* statement of ErrPool whose token at offset off cannot be parsed, and a  *)
(* tail.  An entry with an empty tok fails at the end of input and takes   *)
(* no tail.                                                                *)
(***************************************************************************)
ErrLeads == << "", "  ", "\n", "-- c\n ", "/* a\nb */ ", "\n\n\t" >>

ErrBefore ==
    << [text |-> "", n |-> 0],
       [text |-> "SELECT 1 ; ", n |-> 1],
       [text |-> "SELECT 'a\nb' ;\nUPDATE t SET x = 1\n;", n |-> 2] >>

ErrPool ==
    << [text |-> "SELECT FROM", off |-> 7, tok |-> "FROM"],
       [text |-> "SELECT 1 + )", off |-> 11, tok |-> ")"],
       [text |-> "INSERT INTO t VALUES 1", off |-> 21, tok |-> "1"],
       [text |-> "SELECT ( 1 ;", off |-> 11, tok |-> ";"],
       [text |-> "SELECT a FROM t WHERE )", off |-> 22, tok |-> ")"],
       [text |-> "UPDATE t SET x", off |-> 14, tok |-> ""],
       [text |-> "SELECT a FROM t WHERE", off |-> 21, tok |-> ""] >>

ErrTails == << "", " ; SELECT 2", "\nSELECT 2 FROM", " )" >>

ErrInputs ==
    {in \in [call : {"ParseOne", "ParseAll"}, lead : 1..Len(ErrLeads),
             before : 1..Len(ErrBefore), bad : 1..Len(ErrPool), tail : 1..Len(ErrTails)] :
        /\ in.call = "ParseOne" => in.before = 1
        /\ ErrPool[in.bad].tok = "" => in.tail = 1}

\* the part of the source before the statement that fails
ErrPrefix(in) == ErrLeads[in.lead] \o ErrBefore[in.before].text

ErrSource(in) == Bytes(ErrPrefix(in) \o ErrPool[in.bad].text \o ErrTails[in.tail])

InitErr == \E in \in ErrInputs : Built(ErrSource(in), in.call, in)

NextErr == ParseOneCall \/ ParseAllCall

SpecErr == InitErr /\ [][NextErr]_vars

(***************************************************************************)
(* Properties of a failed parse.                                           *)
(***************************************************************************)
\* the offset in the source of the token that cannot be parsed
ErrPos == Len(ErrPrefix(input)) + ErrPool[input.bad].off

\* the line and the column of offset pos, counting the newlines before it
LineOf(src, pos) == 1 + Cardinality({i \in 1..pos : src[i] = Ch("\n")})

ColOf(src, pos) ==
    LET nl == {i \in 1..pos : src[i] = Ch("\n")}
    IN  IF nl = {} THEN pos + 1
        ELSE pos + 1 - (CHOOSE i \in nl : \A j \in nl : j <= i)

\* the first token the lexer returns at or after offset pos
RECURSIVE TokenFrom(_, _)
TokenFrom(l, pos) ==
    LET r == LexerNext(l)
    IN  IF r.tok.Pos >= pos \/ r.tok.Type = "EOF" THEN r.tok ELSE TokenFrom(r.l, pos)

\* b holds the bytes part
RECURSIVE Contains(_, _)
Contains(b, part) ==
    /\ Len(b) >= Len(part)
    /\ \/ SubSeq(b, 1, Len(part)) = part
       \/ Contains(Tail(b), part)

\* C12: a parse that fails returns a ParseError for the first failure only:
\* it carries the byte offset, the 1-based line and the 1-based column of the
\* token that was current at the failure, its string form is
\* "parse error at line L col C: message" with a message that names the
\* token, the parser stays at that token (nothing after it is parsed, a
\* later failure is not reported), and the result holds only what was parsed
\* before it (nothing for ParseOne).
C12_FirstFailure ==
    phase = "done" =>
        LET t == TokenFrom(NewLexer(arg), ErrPos)
        IN  /\ out.err # Nil
            /\ out.err.node = "ParseError"
            /\ out.err.Pos = ErrPos
            /\ t.Pos = ErrPos
            /\ t.Raw = Bytes(ErrPool[input.bad].tok)
            /\ out.err.Line = t.Line
            /\ out.err.Col = t.Col
            /\ out.err.Line = LineOf(arg, ErrPos)
            /\ out.err.Col = ColOf(arg, ErrPos)
            /\ Error(out.err) =
                   Bytes("parse error at line ") \o Itoa(LineOf(arg, ErrPos))
                   \o Bytes(" col ") \o Itoa(ColOf(arg, ErrPos)) \o Bytes(": ")
                   \o Msg(out.err)
            /\ Contains(Msg(out.err), Quote(t.Raw))
            /\ par.tok = t
            /\ IF input.call = "ParseOne" THEN out.v = Nil
               ELSE /\ Len(out.v) = ErrBefore[input.before].n
                    /\ out.v = ParseStatements(Bytes(ErrPrefix(input))).v

\* the source is SELECT FROM on a later line, statements before it and a
\* second statement that fails after it
C12_Witness ==
    /\ phase = "done"
    /\ ErrPool[input.bad].text = "SELECT FROM"
    /\ ErrTails[input.tail] = "\nSELECT 2 FROM"
    /\ out.err.Line = 5
    /\ Len(out.v) = 2
    /\ Contains(Error(out.err), Bytes("unexpected token \"FROM\""))

(***************************************************************************)
(* Sources with a keyword where parseIdent reads a name: a table name, a   *)
(* column of a column list, an alias after AS, the target of an            *)
(* assignment, the second part of a dotted name.                           *)
(***************************************************************************)
IdentContexts ==
    << [pre |-> "SELECT a FROM ", post |-> ""],
       [pre |-> "INSERT INTO t (", post |-> ") VALUES (1)"],
       [pre |-> "SELECT a AS ", post |-> " FROM t"],
       [pre |-> "UPDATE t SET ", post |-> " = 1"],
       [pre |-> "DELETE FROM db.", post |-> ""] >>

KeywordPool ==
    << "KEY", "key", "ORDER", "order", "TABLE", "select", "Date", "TEXT", "index",
       "VALUES", "Comment", "first", "year", "Limit" >>

IdentInputs == [ctx : 1..Len(IdentContexts), word : 1..Len(KeywordPool), lead : {"", "\n "}]

IdentSource(in) ==
    Bytes(in.lead \o IdentContexts[in.ctx].pre \o KeywordPool[in.word]
          \o IdentContexts[in.ctx].post)

InitIdent == \E in \in IdentInputs : Built(IdentSource(in), "ParseOne", in)

SpecIdent == InitIdent /\ [][ParseOneCall]_vars

(***************************************************************************)
(* Properties of a keyword at a name position.                             *)
(***************************************************************************)
\* the identifier node the statement holds at the position of the context
IdentOf(stmt, ctx) ==
    CASE ctx = 1 -> stmt.From[1].Name.Parts[1]
      [] ctx = 2 -> stmt.Columns[1]
      [] ctx = 3 -> stmt.Columns[1].Alias
      [] ctx = 4 -> stmt.Set[1].Column
      [] ctx = 5 -> stmt.From[1].Name.Parts[2]

LowerBytes(b) == [i \in 1..Len(b) |-> lowerByte(b[i])]

\* C18: at a position where the parser expects a column or table name, a
\* keyword token is accepted as the identifier: the parse succeeds and the
\* identifier node there holds the keyword's text, its name lowercased.
C18_KeywordAsIdent ==
    (phase = "done" /\ FirstToken(KeywordPool[input.word]) \in KeywordKinds) =>
        /\ out.err = Nil
        /\ IdentOf(out.v, input.ctx).node = "Ident"
        /\ IdentOf(out.v, input.ctx).Raw = Bytes(KeywordPool[input.word])
        /\ IdentOf(out.v, input.ctx).Unquoted = LowerBytes(Bytes(KeywordPool[input.word]))

(***************************************************************************)
(* Sources of one statement of each kind after white space or a comment.   *)
(***************************************************************************)
PosLeads == << "", "   ", "\n ", "/* c */ " >>

PosPool ==
    << "SELECT 1",
       "INSERT INTO t VALUES (1)",
       "REPLACE INTO t VALUES (1)",
       "UPDATE t SET x = 1",
       "DELETE FROM t",
       "CREATE TABLE t (a INT)",
       "CREATE TABLE IF NOT EXISTS t (a INT)",
       "CREATE INDEX i ON t (a)",
       "CREATE UNIQUE INDEX i ON t (a)",
       "CREATE VIEW v AS SELECT 1",
       "CREATE DATABASE d",
       "CREATE TRIGGER x",
       "ALTER TABLE t ADD COLUMN a INT",
       "ALTER DATABASE d CHARACTER SET utf8",
       "DROP TABLE t",
       "DROP TABLE IF EXISTS t",
       "DROP INDEX i ON t",
       "DROP DATABASE d",
       "DROP VIEW v",
       "TRUNCATE TABLE t",
       "USE d",
       "SHOW TABLES",
       "EXPLAIN SELECT 1",
       "CALL p(1)",
       "BEGIN",
       "COMMIT",
       "START TRANSACTION",
       "ROLLBACK",
       "SAVEPOINT s",
       "WITH c AS (SELECT 1) SELECT 2",
       "WITH c AS (SELECT 1) INSERT INTO t SELECT 2",
       "WITH c AS (SELECT 1) UPDATE t SET x = 1",
       "WITH c AS (SELECT 1) DELETE FROM t" >>

PosInputs == [lead : 1..Len(PosLeads), stmt : 1..Len(PosPool)]

PosSource(in) == Bytes(PosLeads[in.lead] \o PosPool[in.stmt])

InitPos == \E in \in PosInputs : Built(PosSource(in), "ParseOne", in)

SpecPos == InitPos /\ [][ParseOneCall]_vars

(***************************************************************************)
(* Properties of a statement's position.                                   *)
(***************************************************************************)
\* Statement.Pos()
Pos(stmt) == stmt.TokPos

\* C19: the statement the parser returns has a position that is not negative
\* and is the byte offset of the statement's first token in the source, for
\* every statement kind.
C19_PosIsFirstToken ==
    phase = "done" =>
        /\ out.err = Nil
        /\ out.v # Nil
        /\ Pos(out.v) >= 0
        /\ Pos(out.v) = Len(PosLeads[input.lead])
        /\ Pos(out.v) = LexerNext(NewLexer(arg)).tok.Pos

(***************************************************************************)
(* Sources CREATE [OR REPLACE] VIEW name [(cols)] AS select.               *)
(***************************************************************************)
ViewHeads ==
    << [text |-> "CREATE VIEW ", orReplace |-> FALSE],
       [text |-> "create view ", orReplace |-> FALSE],
       [text |-> "CREATE OR REPLACE VIEW ", orReplace |-> TRUE],
       [text |-> "create or replace\nview ", orReplace |-> TRUE] >>

ViewNames == << "v", "db.active_users" >>

ViewColumns ==
    << [text |-> "", n |-> 0], [text |-> " (a)", n |-> 1], [text |-> " (a, b)", n |-> 2] >>

ViewSelects ==
    << "SELECT 1, 2", "select id, name from users where active = 1",
       "SELECT a FROM t UNION SELECT b FROM u" >>

ViewInputs ==
    [head : 1..Len(ViewHeads), name : 1..Len(ViewNames), cols : 1..Len(ViewColumns),
     sel : 1..Len(ViewSelects)]

\* the source up to the select
ViewPrefix(in) ==
    ViewHeads[in.head].text \o ViewNames[in.name] \o ViewColumns[in.cols].text \o " AS "

ViewSource(in) == Bytes(ViewPrefix(in) \o ViewSelects[in.sel])

InitView == \E in \in ViewInputs : Built(ViewSource(in), "ParseOne", in)

SpecView == InitView /\ [][ParseOneCall]_vars

(***************************************************************************)
(* Properties of CREATE VIEW.                                              *)
(***************************************************************************)
\* C20: CREATE OR REPLACE VIEW name [(cols)] AS select parses to a CreateView
\* statement with the or-replace flag set and the select attached, CREATE
\* VIEW name [(cols)] AS select to one with the flag clear; neither parses to
\* the generic DDL statement.
C20_CreateView ==
    phase = "done" =>
        /\ out.err = Nil
        /\ out.v.node # "GenericDDLStmt"
        /\ out.v.node = "CreateViewStmt"
        /\ out.v.OrReplace = ViewHeads[input.head].orReplace
        /\ Len(out.v.Columns) = ViewColumns[input.cols].n
        /\ out.v.Select = SelectAt(ViewSelects[input.sel], Len(ViewPrefix(input)))

(***************************************************************************)
(* The dialect renderer.  A dialectRenderer is [target, strict,            *)
(* paramIndex]; the model carries it together with the text written so     *)
(* far: w = [target, strict, paramIndex, b, err], where b is the bytes of  *)
(* the strings.Builder (or of the string being concatenated) and err the   *)
(* error a render function returns.  Every render function takes w and     *)
(* returns it with its text appended, in the order the code makes its      *)
(* calls, which is the order paramIndex is stepped in.                     *)
(***************************************************************************)
Dialects == {"mysql", "postgres", "sqlite"}

\* a renderer that carries on from the count the call before it ended with
keptRenderer(target, strict) ==
    [target |-> target, strict |-> strict,
     paramIndex |-> IF out = <<>> THEN 0 ELSE out[Len(out)].paramIndex,
     b |-> <<>>, err |-> Nil]

\* &dialectRenderer{target: opts.Target, strict: opts.Strict}
NewRenderer(target, strict) ==
    [target |-> target, strict |-> strict, paramIndex |-> 0, b |-> <<>>, err |-> Nil]

\* b.WriteString(s) for a string of the code
W(w, s) == [w EXCEPT !.b = @ \o Bytes(s)]

\* b.WriteString(string(raw))
WB(w, raw) == [w EXCEPT !.b = @ \o raw]

\* if cond { b.WriteString(s) }
WIf(w, cond, s) == IF cond THEN W(w, s) ELSE w

\* fmt.Errorf
Errorf(w, format, args) == [w EXCEPT !.err = [node |-> "error", Msg |-> <<format>> \o args]]

\* strings.ToUpper
ToUpper(b) == [i \in 1..Len(b) |-> upperByte(b[i])]

\* strings.ReplaceAll(name, q, q+q) for a one-byte q
RECURSIVE doubleByte(_, _)
doubleByte(name, q) ==
    IF name = <<>> THEN <<>>
    ELSE (IF Head(name) = q THEN <<q, q>> ELSE <<Head(name)>>) \o doubleByte(Tail(name), q)

\* strconv.Itoa of an int kept as its decimal digits
ItoaDigits(d) == IF d = <<>> THEN Bytes("0") ELSE d

\* The render functions call each other from many places and recursively;
\* each is entered through render, under its name.
RECURSIVE render(_, _, _)

renderStatement(w, stmt) == render("renderStatement", w, stmt)
renderWith(w, with) == render("renderWith", w, with)
renderSelect(w, s) == render("renderSelect", w, s)
renderColumnDef(w, c) == render("renderColumnDef", w, c)
renderDataType(w, dt) == render("renderDataType", w, dt)
renderConstraint(w, c) == render("renderConstraint", w, c)
renderAlterCmd(w, cmd) == render("renderAlterCmd", w, cmd)
renderTableRef(w, tr) == render("renderTableRef", w, tr)
renderExpr(w, expr) == render("renderExpr", w, expr)
renderQualifiedIdent(w, q) == render("renderQualifiedIdent", w, q)
renderIdent(w, id) == render("renderIdent", w, id)

\* for i, x := range list { if i > 0 { b.WriteString(sep) }; f(x) }, from item i
RECURSIVE joinFrom(_, _, _, _, _)
joinFrom(w, list, i, sep, f) ==
    IF i > Len(list) \/ w.err # Nil THEN w
    ELSE joinFrom(render(f, WIf(w, i > 1, sep), list[i]), list, i + 1, sep, f)

join(w, list, sep, f) == joinFrom(w, list, 1, sep, f)

\* if len(list) > 0 { b.WriteString(open); the loop; b.WriteString(close) }
joinIfAny(w, list, open, sep, f, close) ==
    IF Len(list) > 0 THEN W(join(W(w, open), list, sep, f), close) ELSE w

\* if x != nil { b.WriteString(kw); f(x) }
renderIfSet(w, x, kw, f) == IF x # Nil THEN render(f, W(w, kw), x) ELSE w

\* sub, _ := r.renderSelect(subq): the error is dropped, the text kept
renderSelectDropErr(w, subq) == [renderSelect(w, subq) EXCEPT !.err = w.err]

renderIdentBody(w, id) ==
    IF id = Nil THEN w
    ELSE IF id.Unquoted = Bytes("*") THEN W(w, "*")
    ELSE IF w.target = "mysql"
    THEN WB(w, <<BQ>> \o doubleByte(id.Unquoted, BQ) \o <<BQ>>)
    ELSE WB(w, <<Ch("\"")>> \o doubleByte(id.Unquoted, Ch("\"")) \o <<Ch("\"")>>)

renderQualifiedIdentBody(w, q) ==
    IF q = Nil THEN w ELSE join(w, q.Parts, ".", "renderIdent")

opString(op) ==
    CASE op = "PLUS" -> "+"
      [] op = "MINUS" -> "-"
      [] op = "STAR" -> "*"
      [] op = "SLASH" -> "/"
      [] op = "PERCENT" -> "%"
      [] op \in {"AND", "DAMP"} -> "AND"
      [] op = "OR" -> "OR"
      [] op = "NOT" -> "NOT"
      [] op = "EQ" -> "="
      [] op = "NEQ" -> "!="
      [] op = "LT" -> "<"
      [] op = "GT" -> ">"
      [] op = "LTE" -> "<="
      [] op = "GTE" -> ">="
      [] op = "LSHIFT" -> "<<"
      [] op = "RSHIFT" -> ">>"
      [] op = "DBAR" -> "||"
      [] op = "PIPE" -> "|"
      [] op = "CARET" -> "^"
      [] op = "AMPERSAND" -> "&"
      [] op = "ARROW" -> "->"
      [] op = "DARROW2" -> "->>"
      [] op = "HASHARROW" -> "#>"
      [] op = "HASHDARROW" -> "#>>"
      [] op = "ATGT" -> "@>"
      [] op = "LTAT" -> "<@"
      [] op = "QUESTION" -> "?"
      [] op = "QMARKPIPE" -> "?|"
      [] op = "QMARKAMP" -> "?&"
      [] OTHER -> String(op)

\* every parameter is written as ?, whatever the target
renderParamPlain(w, raw) == W(w, "?")

renderParam(w, raw) ==
    IF w.target = "postgres"
    THEN WB([w EXCEPT !.paramIndex = @ + 1], <<Ch("$")>> \o Itoa(w.paramIndex + 1))
    ELSE W(w, "?")

renderFunctionName(w, name) ==
    IF name = Nil \/ Len(name.Parts) = 0 THEN w
    ELSE IF Len(name.Parts) = 1 THEN
        LET fn == ToUpper(name.Parts[1].Unquoted)
        IN  IF w.target \in {"postgres", "sqlite"} /\ fn = Bytes("IFNULL") THEN W(w, "COALESCE")
            ELSE IF w.target = "mysql" /\ fn = Bytes("COALESCE") THEN W(w, "IFNULL")
            ELSE WB(w, fn)
    ELSE renderQualifiedIdent(w, name)

\* " WHEN " cond " THEN " result
caseWhen(w, when) ==
    renderExpr(W(renderExpr(W(w, " WHEN "), when.Cond), " THEN "), when.Result)

\* the argument list of a function call
funcArgs(w, e) ==
    IF e.Star THEN W(w, "*")
    ELSE join(WIf(w, e.Distinct, "DISTINCT "), e.Args, ", ", "renderExpr")

\* the list or the subquery of IN
inItems(w, e) ==
    IF e.Subq # Nil THEN renderSelectDropErr(w, e.Subq)
    ELSE join(w, e.List, ", ", "renderExpr")

renderExprBody(w, e) ==
    CASE e.node = "Ident" -> renderIdent(w, e)
      [] e.node = "QualifiedIdent" -> renderQualifiedIdent(w, e)
      [] e.node = "StarExpr" -> W(w, "*")
      [] e.node = "Literal" -> WB(w, e.Raw)
      [] e.node = "NullLit" -> W(w, "NULL")
      [] e.node = "Param" -> renderParam(w, e.Raw)
      [] e.node = "BinaryExpr" ->
            W(renderExpr(W(W(W(renderExpr(W(w, "("), e.Left), " "), opString(e.Op)), " "),
                         e.Right), ")")
      [] e.node = "UnaryExpr" ->
            W(renderExpr(W(W(W(w, "("), opString(e.Op)), " "), e.Expr), ")")
      [] e.node = "FuncCall" ->
            W(funcArgs(W(renderFunctionName(w, e.Name), "("), e), ")")
      [] e.node = "CaseExpr" ->
            W(renderIfSet(join(renderIfSet(W(w, "CASE"), e.Operand, " ", "renderExpr"),
                               e.Whens, "", "caseWhen"),
                          e.Else, " ELSE ", "renderExpr"), " END")
      [] e.node = "BetweenExpr" ->
            renderExpr(W(renderExpr(W(WIf(renderExpr(w, e.Expr), e.Not, " NOT"),
                                      " BETWEEN "), e.Lo), " AND "), e.Hi)
      [] e.node = "InExpr" ->
            W(inItems(W(WIf(renderExpr(w, e.Expr), e.Not, " NOT"), " IN ("), e), ")")
      [] e.node = "LikeExpr" ->
            renderIfSet(renderExpr(W(WIf(renderExpr(w, e.Expr), e.Not, " NOT"), " LIKE "),
                                   e.Pattern),
                        e.Escape, " ESCAPE ", "renderExpr")
      [] e.node = "IsNullExpr" ->
            W(WIf(W(renderExpr(w, e.Expr), " IS "), e.Not, "NOT "), "NULL")
      [] e.node = "ExistsExpr" ->
            \* sub is rendered first, the text before it is put in front after
            W(renderSelectDropErr(W(WIf(w, e.Not, "NOT "), "EXISTS ("), e.Subq), ")")
      [] e.node = "SubqueryExpr" -> W(renderSelectDropErr(W(w, "("), e.Subq), ")")
      [] e.node = "CastExpr" ->
            W(renderDataType(W(renderExpr(W(w, "CAST("), e.Expr), " AS "), e.Type), ")")
      [] e.node = "SelectStmt" -> W(renderSelectDropErr(W(w, "("), e), ")")
      [] OTHER -> w

renderTableRefBody(w, t) ==
    CASE t.node = "SimpleTable" ->
            renderIfSet(renderQualifiedIdent(w, t.Name), t.Alias, " ", "renderIdent")
      [] t.node = "SubqueryTable" ->
            renderIfSet(W(renderSelectDropErr(W(w, "("), t.Subq), ")"),
                        t.Alias, " ", "renderIdent")
      [] t.node = "JoinTable" ->
            joinIfAny(
                renderIfSet(
                    renderTableRef(
                        W(W(renderTableRef(w, t.Left), " "),
                          CASE t.Kind = "InnerJoin" -> "JOIN "
                            [] t.Kind = "LeftJoin" -> "LEFT JOIN "
                            [] t.Kind = "RightJoin" -> "RIGHT JOIN "
                            [] t.Kind = "FullJoin" -> "FULL JOIN "
                            [] t.Kind = "CrossJoin" -> "CROSS JOIN "
                            [] t.Kind = "NaturalJoin" -> "NATURAL JOIN "
                            [] OTHER -> ""),
                        t.Right),
                    t.On, " ON ", "renderExpr"),
                t.Using, " USING (", ", ", "renderIdent", ")")
      [] OTHER -> w

renderDataTypeBody(w, dt) ==
    LET name == IF bytesEqualFold(dt.Name, "jsonb")
                THEN (IF w.target = "sqlite" THEN Bytes("TEXT")
                      ELSE IF w.target = "mysql" THEN Bytes("JSON")
                      ELSE dt.Name)
                ELSE IF bytesEqualFold(dt.Name, "json") /\ w.target = "sqlite"
                THEN Bytes("TEXT")
                ELSE dt.Name
        args == IF dt.Precision # <<>>
                THEN Bytes("(") \o ItoaDigits(dt.Precision)
                     \o (IF dt.Scale # <<>> THEN Bytes(",") \o ItoaDigits(dt.Scale) ELSE <<>>)
                     \o Bytes(")")
                ELSE <<>>
    IN  WIf(WIf(WB(w, name \o args), dt.Unsigned /\ w.target = "mysql", " UNSIGNED"),
            dt.Zerofill /\ w.target = "mysql", " ZEROFILL")

\* one CTE of a WITH clause
withCTE(w, cte) ==
    W(renderSelectDropErr(
          W(joinIfAny(renderIdent(w, cte.Name), cte.Columns, " (", ", ", "renderIdent", ")"),
            " AS ("),
          cte.Subq), ")")

renderWithBody(w, with) ==
    IF with = Nil THEN w
    ELSE W(join(WIf(W(w, "WITH "), with.Recursive, "RECURSIVE "), with.CTEs, ", ", "withCTE"),
           " ")

\* one column of a select list
selectColumn(w, c) ==
    renderIfSet(IF c.Star THEN W(w, "*") ELSE renderExpr(w, c.Expr),
                c.Alias, " AS ", "renderIdent")

\* one ORDER BY item of a select: DESC or ASC is always written
selectOrderItem(w, it) ==
    W(renderExpr(w, it.Expr), IF it.Desc THEN " DESC" ELSE " ASC")

\* one ORDER BY item of an update or a delete
orderItem(w, o) == WIf(renderExpr(w, o.Expr), o.Desc, " DESC")

\* LIMIT count [OFFSET offset] of a select
selectLimit(w, l) ==
    renderIfSet(renderExpr(W(w, " LIMIT "), l.Count), l.Offset, " OFFSET ", "renderExpr")

\* LIMIT count of an update or a delete
limitCount(w, l) == renderExpr(W(w, " LIMIT "), l.Count)

\* the set operation loop of renderSelect: cur.Right is rendered whole, with
\* the operations that follow it, and then cur moves to cur.Right.SetOp
RECURSIVE selectSetOps(_, _)
selectSetOps(w, cur) ==
    IF cur = Nil THEN w
    ELSE selectSetOps(
             renderSelect(
                 W(WIf(W(W(w, " "),
                         CASE cur.Op = "Union" -> "UNION"
                           [] cur.Op = "Intersect" -> "INTERSECT"
                           [] cur.Op = "Except" -> "EXCEPT"
                           [] OTHER -> ""),
                       cur.All, " ALL"), " "),
                 cur.Right),
             cur.Right.SetOp)

renderSelectBody(w, s) ==
    selectSetOps(
        renderIfSet(
            joinIfAny(
                renderIfSet(
                    joinIfAny(
                        renderIfSet(
                            joinIfAny(
                                join(WIf(W(renderWith(w, s.With), "SELECT "),
                                         s.Distinct, "DISTINCT "),
                                     s.Columns, ", ", "selectColumn"),
                                s.From, " FROM ", ", ", "renderTableRef", ""),
                            s.Where, " WHERE ", "renderExpr"),
                        s.GroupBy, " GROUP BY ", ", ", "renderExpr", ""),
                    s.Having, " HAVING ", "renderExpr"),
                s.OrderBy, " ORDER BY ", ", ", "selectOrderItem", ""),
            s.Limit, "", "selectLimit"),
        s.SetOp)

\* ident " = " value
assignment(w, a) == renderExpr(W(renderIdent(w, a.Column), " = "), a.Value)

\* ( e, ... ) for one row of VALUES
valuesRow(w, row) == W(join(W(w, "("), row, ", ", "renderExpr"), ")")

\* the VALUES rows or the select of an insert
insertSource(w, s) ==
    IF Len(s.Values) > 0 THEN join(W(w, " VALUES "), s.Values, ", ", "valuesRow")
    ELSE renderIfSet(w, s.Select, " ", "renderSelect")

\* case DialectMySQL of renderInsert
insertTailMySQL(w, s) ==
    joinIfAny(w, IF Len(s.OnDupKey) = 0 THEN s.OnConflictUpdate ELSE s.OnDupKey,
              " ON DUPLICATE KEY UPDATE ", ", ", "assignment", "")

\* the conflict target is never taken from the column list
insertTailNoTarget(w, s) ==
    LET assign == IF Len(s.OnConflictUpdate) = 0 /\ Len(s.OnDupKey) > 0
                  THEN s.OnDupKey ELSE s.OnConflictUpdate
    IN  IF Len(assign) = 0 THEN w
        ELSE join(W(joinIfAny(W(w, " ON CONFLICT"), s.OnConflictTarget,
                              " (", ", ", "renderIdent", ")"),
                    " DO UPDATE SET "),
                  assign, ", ", "assignment")

\* the ON CONFLICT clause of renderInsert, once the target is settled
conflictClause(w, s, assign, target) ==
    IF s.OnConflictDoNothing /\ Len(assign) = 0
    THEN W(joinIfAny(W(w, " ON CONFLICT"), target, " (", ", ", "renderIdent", ")"),
           " DO NOTHING")
    ELSE join(W(joinIfAny(W(w, " ON CONFLICT"), target, " (", ", ", "renderIdent", ")"),
                " DO UPDATE SET "),
              assign, ", ", "assignment")

\* the missing conflict target is an error whether the mode is strict or not
insertTailErrLax(w, s) ==
    LET assign == IF Len(s.OnConflictUpdate) = 0 /\ Len(s.OnDupKey) > 0
                  THEN s.OnDupKey ELSE s.OnConflictUpdate
        noTarget == Len(s.OnConflictTarget) = 0 /\ Len(assign) > 0
        target == IF noTarget /\ Len(s.Columns) > 0 THEN <<s.Columns[1]>>
                  ELSE s.OnConflictTarget
    IN  IF ~(Len(assign) > 0 \/ s.OnConflictDoNothing) THEN w
        ELSE IF noTarget /\ Len(s.Columns) = 0
        THEN Errorf(w, "cannot rewrite ON DUPLICATE KEY without conflict target", <<>>)
        ELSE conflictClause(w, s, assign, target)

\* case DialectPostgres, DialectSQLite of renderInsert
insertTailConflict(w, s) ==
    LET assign == IF Len(s.OnConflictUpdate) = 0 /\ Len(s.OnDupKey) > 0
                  THEN s.OnDupKey ELSE s.OnConflictUpdate
        noTarget == Len(s.OnConflictTarget) = 0 /\ Len(assign) > 0
        target == IF noTarget /\ Len(s.Columns) > 0 THEN <<s.Columns[1]>>
                  ELSE s.OnConflictTarget
    IN  IF ~(Len(assign) > 0 \/ s.OnConflictDoNothing) THEN w
        ELSE IF noTarget /\ Len(s.Columns) = 0 /\ w.strict
        THEN Errorf(w, "cannot rewrite ON DUPLICATE KEY without conflict target", <<>>)
        ELSE conflictClause(w, s, assign, target)

insertTail(w, s) ==
    IF w.target = "mysql" THEN insertTailMySQL(w, s)
    ELSE IF w.target \in {"postgres", "sqlite"} THEN insertTailConflict(w, s)
    ELSE w

renderInsert(w, s) ==
    insertTail(
        insertSource(
            joinIfAny(
                renderQualifiedIdent(
                    IF s.Replace THEN W(renderWith(w, s.With), "REPLACE INTO ")
                    ELSE W(WIf(W(renderWith(w, s.With), "INSERT "),
                               s.Ignore /\ w.target = "mysql", "IGNORE "), "INTO "),
                    s.Table),
                s.Columns, " (", ", ", "renderIdent", ")"),
            s),
        s)

renderUpdate(w, s) ==
    renderIfSet(
        joinIfAny(
            renderIfSet(
                join(W(join(W(renderWith(w, s.With), "UPDATE "),
                            s.Tables, ", ", "renderTableRef"),
                       " SET "),
                     s.Set, ", ", "assignment"),
                s.Where, " WHERE ", "renderExpr"),
            s.Order, " ORDER BY ", ", ", "orderItem", ""),
        s.Limit, "", "limitCount")

renderDelete(w, s) ==
    renderIfSet(
        joinIfAny(
            renderIfSet(
                join(W(renderWith(w, s.With), "DELETE FROM "), s.From, ", ", "renderTableRef"),
                s.Where, " WHERE ", "renderExpr"),
            s.Order, " ORDER BY ", ", ", "orderItem", ""),
        s.Limit, "", "limitCount")

\* " KEY" or " KEY=VALUE" for one option
option(w, opt) ==
    IF Len(opt.Value) > 0 THEN WB(W(WB(W(w, " "), opt.Key), "="), opt.Value)
    ELSE WB(W(w, " "), opt.Key)

renderColumnDefBody(w, c) ==
    renderIfSet(
        WIf(WIf(WIf(renderIfSet(
                        WIf(renderIfSet(renderIdent(w, c.Name), c.Type, " ", "renderDataType"),
                            c.NotNull, " NOT NULL"),
                        c.Default, " DEFAULT ", "renderExpr"),
                    c.AutoIncrement,
                    IF w.target = "postgres" THEN " GENERATED BY DEFAULT AS IDENTITY"
                    ELSE " AUTO_INCREMENT"),
                c.PrimaryKey, " PRIMARY KEY"),
            c.Unique, " UNIQUE"),
        c.Comment, " COMMENT ", "renderExpr")

\* the name of an index column
indexColName(w, col) == renderIdent(w, col.Name)

\* REFERENCES table [(cols)]
constraintRef(w, c) ==
    joinIfAny(renderQualifiedIdent(W(w, " REFERENCES "), c.RefTable),
              c.RefCols, " (", ", ", "renderIdent", ")")

renderConstraintBody(w, c) ==
    renderIfSet(
        joinIfAny(
            W(IF c.Name # Nil THEN W(renderIdent(W(w, "CONSTRAINT "), c.Name), " ") ELSE w,
              CASE c.Type = "PrimaryKeyConstraint" -> "PRIMARY KEY"
                [] c.Type = "UniqueConstraint" -> "UNIQUE"
                [] c.Type = "IndexConstraint" -> "INDEX"
                [] c.Type = "ForeignKeyConstraint" -> "FOREIGN KEY"
                [] c.Type = "CheckConstraint" -> "CHECK"
                [] OTHER -> ""),
            c.Columns, " (", ", ", "indexColName", ")"),
        IF c.RefTable # Nil THEN c ELSE Nil, "", "constraintRef")

\* column-def [FIRST] [AFTER ident] of ADD COLUMN and MODIFY COLUMN
alterColumn(w, c) ==
    renderIfSet(WIf(renderColumnDef(w, c.Col), c.First, " FIRST"),
                c.After, " AFTER ", "renderIdent")

renderAlterCmdBody(w, c) ==
    CASE c.node = "AddColumnCmd" -> alterColumn(W(w, "ADD COLUMN "), c)
      [] c.node = "DropColumnCmd" -> renderIdent(W(w, "DROP COLUMN "), c.Name)
      [] c.node = "ModifyColumnCmd" -> alterColumn(W(w, "MODIFY COLUMN "), c)
      [] c.node = "AddConstraintCmd" -> renderConstraint(W(w, "ADD "), c.Constraint)
      [] c.node = "DropIndexCmd" -> renderIdent(W(w, "DROP INDEX "), c.Name)
      [] c.node = "RenameTableCmd" -> renderQualifiedIdent(W(w, "RENAME TO "), c.NewName)
      [] OTHER -> w

\* ( columns, constraints ) of renderCreateTable
createTableItems(w, s) ==
    IF Len(s.Columns) > 0 \/ Len(s.Constraints) > 0
    THEN W(join(WIf(join(W(w, " ("), s.Columns, ", ", "renderColumnDef"),
                    Len(s.Columns) > 0 /\ Len(s.Constraints) > 0, ", "),
                s.Constraints, ", ", "renderConstraint"), ")")
    ELSE w

renderCreateTable(w, s) ==
    IF s.Like # Nil
    THEN renderQualifiedIdent(
             W(renderQualifiedIdent(WIf(W(w, "CREATE TABLE "), s.IfNotExists, "IF NOT EXISTS "),
                                    s.Table), " LIKE "),
             s.Like)
    ELSE renderIfSet(
             join(createTableItems(
                      renderQualifiedIdent(
                          WIf(W(w, "CREATE TABLE "), s.IfNotExists, "IF NOT EXISTS "), s.Table),
                      s),
                  s.Options, "", "option"),
             s.Select, " AS ", "renderSelect")

renderAlterTable(w, s) ==
    join(WIf(renderQualifiedIdent(W(w, "ALTER TABLE "), s.Table), Len(s.Cmds) > 0, " "),
         s.Cmds, ", ", "renderAlterCmd")

renderDropTable(w, s) ==
    WIf(join(WIf(W(w, "DROP TABLE "), s.IfExists, "IF EXISTS "),
             s.Tables, ", ", "renderQualifiedIdent"),
        s.Cascade, " CASCADE")

\* name [(length)] [DESC] of one index column
indexColumn(w, c) ==
    WIf(IF c.Length # Nil
        THEN W(WB(W(renderIdent(w, c.Name), "("), ItoaDigits(c.Length.Value)), ")")
        ELSE renderIdent(w, c.Name),
        c.Desc, " DESC")

renderCreateIndex(w, s) ==
    W(join(W(renderQualifiedIdent(
                 W(renderIdent(W(WIf(W(w, "CREATE "), s.Type = "UniqueConstraint", "UNIQUE "),
                                 "INDEX "), s.Name), " ON "),
                 s.Table), " ("),
           s.Columns, ", ", "indexColumn"), ")")

renderDropIndex(w, s) ==
    IF w.target \in {"postgres", "sqlite"}
    THEN renderIdent(WIf(W(w, "DROP INDEX "), s.IfExists, "IF EXISTS "), s.Name)
    ELSE renderIfSet(renderIdent(W(w, "DROP INDEX "), s.Name),
                     s.Table, " ON ", "renderQualifiedIdent")

renderCreateView(w, s) ==
    renderSelect(
        W(joinIfAny(renderQualifiedIdent(
                        W(WIf(W(w, "CREATE "), s.OrReplace, "OR REPLACE "), "VIEW "), s.Name),
                    s.Columns, " (", ", ", "renderIdent", ")"),
          " AS "),
        s.Select)

renderCreateDatabase(w, s) ==
    join(renderIdent(WIf(W(w, "CREATE DATABASE "), s.IfNotExists, "IF NOT EXISTS "), s.Name),
         s.Options, "", "option")

renderAlterDatabase(w, s) ==
    join(renderIdent(W(w, "ALTER DATABASE "), s.Name), s.Options, "", "option")

renderDropDatabase(w, s) ==
    renderIdent(WIf(W(w, "DROP DATABASE "), s.IfExists, "IF EXISTS "), s.Name)

renderShow(w, s) ==
    renderIfSet(renderIfSet(WB(W(w, "SHOW "), s.What), s.Like, " LIKE ", "renderExpr"),
                s.Where, " WHERE ", "renderExpr")

renderCall(w, s) ==
    W(join(W(renderQualifiedIdent(W(w, "CALL "), s.Name), "("), s.Args, ", ", "renderExpr"),
      ")")

\* out += " " + string(o)
txOption(w, o) == WB(W(w, " "), o)

renderTx(w, s) ==
    CASE s.Action = Bytes("begin") -> W(w, "BEGIN")
      [] s.Action = Bytes("commit") -> W(w, "COMMIT")
      [] s.Action = Bytes("rollback") ->
            IF s.Savepoint = Nil THEN W(w, "ROLLBACK")
            ELSE renderIdent(W(w, "ROLLBACK TO SAVEPOINT "), s.Savepoint)
      [] s.Action = Bytes("start_transaction") ->
            join(W(w, "START TRANSACTION"), s.Options, "", "txOption")
      [] s.Action = Bytes("savepoint") -> renderIdent(W(w, "SAVEPOINT "), s.Savepoint)
      [] s.Action = Bytes("release_savepoint") ->
            renderIdent(W(w, "RELEASE SAVEPOINT "), s.Savepoint)
      [] s.Action = Bytes("set_transaction") ->
            join(W(w, "SET TRANSACTION"), s.Options, "", "txOption")
      [] OTHER -> WB(w, ToUpper(s.Action))

renderGenericDDL(w, s) ==
    renderIfSet(WB(W(WB(w, ToUpper(s.Verb)), " "), ToUpper(s.Object)),
                s.Name, " ", "renderIdent")

\* a statement type outside the switch: an error in strict mode, no text otherwise
unsupported(w, stmt) ==
    IF w.strict THEN Errorf(w, "unsupported statement type %T", <<stmt.node>>) ELSE w

renderStatementBody(w, s) ==
    CASE s.node = "SelectStmt" -> renderSelect(w, s)
      [] s.node = "InsertStmt" -> renderInsert(w, s)
      [] s.node = "UpdateStmt" -> renderUpdate(w, s)
      [] s.node = "DeleteStmt" -> renderDelete(w, s)
      [] s.node = "CreateTableStmt" -> renderCreateTable(w, s)
      [] s.node = "AlterTableStmt" -> renderAlterTable(w, s)
      [] s.node = "DropTableStmt" -> renderDropTable(w, s)
      [] s.node = "CreateIndexStmt" -> renderCreateIndex(w, s)
      [] s.node = "DropIndexStmt" -> renderDropIndex(w, s)
      [] s.node = "CreateViewStmt" -> renderCreateView(w, s)
      [] s.node = "CreateDatabaseStmt" -> renderCreateDatabase(w, s)
      [] s.node = "AlterDatabaseStmt" -> renderAlterDatabase(w, s)
      [] s.node = "DropDatabaseStmt" -> renderDropDatabase(w, s)
      [] s.node = "TruncateStmt" -> renderQualifiedIdent(W(w, "TRUNCATE TABLE "), s.Table)
      [] s.node = "UseStmt" -> renderIdent(W(w, "USE "), s.Database)
      [] s.node = "ShowStmt" -> renderShow(w, s)
      [] s.node = "ExplainStmt" -> renderStatement(W(w, "EXPLAIN "), s.Stmt)
      [] s.node = "CallStmt" -> renderCall(w, s)
      [] s.node = "TransactionStmt" -> renderTx(w, s)
      [] s.node = "GenericDDLStmt" -> renderGenericDDL(w, s)
      [] OTHER -> unsupported(w, s)

render(f, w, n) ==
    IF w.err # Nil THEN w ELSE
    CASE f = "renderStatement" -> renderStatementBody(w, n)
      [] f = "renderWith" -> renderWithBody(w, n)
      [] f = "renderSelect" -> renderSelectBody(w, n)
      [] f = "renderColumnDef" -> renderColumnDefBody(w, n)
      [] f = "renderDataType" -> renderDataTypeBody(w, n)
      [] f = "renderConstraint" -> renderConstraintBody(w, n)
      [] f = "renderAlterCmd" -> renderAlterCmdBody(w, n)
      [] f = "renderTableRef" -> renderTableRefBody(w, n)
      [] f = "renderExpr" -> renderExprBody(w, n)
      [] f = "renderQualifiedIdent" -> renderQualifiedIdentBody(w, n)
      [] f = "renderIdent" -> renderIdentBody(w, n)
      [] f = "caseWhen" -> caseWhen(w, n)
      [] f = "withCTE" -> withCTE(w, n)
      [] f = "selectColumn" -> selectColumn(w, n)
      [] f = "selectOrderItem" -> selectOrderItem(w, n)
      [] f = "orderItem" -> orderItem(w, n)
      [] f = "selectLimit" -> selectLimit(w, n)
      [] f = "limitCount" -> limitCount(w, n)
      [] f = "assignment" -> assignment(w, n)
      [] f = "valuesRow" -> valuesRow(w, n)
      [] f = "option" -> option(w, n)
      [] f = "indexColName" -> indexColName(w, n)
      [] f = "constraintRef" -> constraintRef(w, n)
      [] f = "indexColumn" -> indexColumn(w, n)
      [] f = "txOption" -> txOption(w, n)

\* the loop of renderStatements: "; " between statements, the first error ends it
RECURSIVE renderStatementsFrom(_, _, _)
renderStatementsFrom(w, stmts, i) ==
    IF i > Len(stmts) \/ w.err # Nil THEN w
    ELSE renderStatementsFrom(renderStatement(WIf(w, i > 1, "; "), stmts[i]), stmts, i + 1)

\* what renderStatements returns from the writer: the text, "" with an error
rendered(w) ==
    IF w.err # Nil THEN [s |-> <<>>, err |-> w.err, paramIndex |-> w.paramIndex]
    ELSE [s |-> w.b, err |-> Nil, paramIndex |-> w.paramIndex]

renderStatements(r, stmts) == rendered(renderStatementsFrom(r, stmts, 1))

(***************************************************************************)
(* ConvertDialectWithOptions(sql, opts): the source is parsed, a renderer   *)
(* is built for the call and renders the statements.  The result is        *)
(* [s, err, paramIndex]: the text, the error, and the count the renderer   *)
(* of the call ended with.                                                 *)
(***************************************************************************)
\* the part after ParseStatements has returned r
convertParsed(r, target, strict) ==
    IF r.err # Nil THEN [s |-> <<>>, err |-> r.err, paramIndex |-> 0]
    ELSE renderStatements(NewRenderer(target, strict), r.v)

ConvertDialectWithOptions(sql, target, strict) ==
    convertParsed(ParseStatements(sql), target, strict)

\* One call of ConvertDialectWithOptions on the source; the entry point is
\* called twice on the same source and options.
ConvertCall ==
    /\ phase \in {"Convert", "Again"}
    /\ out' = Append(out, ConvertDialectWithOptions(arg, input.target, input.strict))
    /\ phase' = IF phase = "Convert" THEN "Again" ELSE "done"
    /\ UNCHANGED <<arg, lex, buf, par, input>>

\* the state before the first call
Given(src, in) ==
    /\ arg = src
    /\ input = in
    /\ phase = "Convert"
    /\ out = <<>>
    /\ buf = <<>>
    /\ lex = Nil
    /\ par = Nil

\* sources of one or two statements, placeholders in the three spellings
ConvertPool == <<
    "SELECT a FROM t WHERE a = ? AND b = ?",
    "SELECT a FROM t WHERE a = :x; UPDATE t SET b = ? WHERE c = $7",
    "INSERT INTO t (a, b) VALUES (?, ?) ON DUPLICATE KEY UPDATE b = ?",
    "INSERT INTO t VALUES (1, 2) ON DUPLICATE KEY UPDATE b = 3",
    "INSERT INTO t VALUES (?, 2) ON DUPLICATE KEY UPDATE b = ?; SELECT ?",
    "INSERT INTO t (a) VALUES (1) ON CONFLICT (a) DO NOTHING",
    "INSERT INTO t (a) VALUES (@v) ON CONFLICT (a) DO UPDATE SET a = ?",
    "DELETE FROM t WHERE a IN (?, ?, ?); SELECT IFNULL(a, ?) FROM t",
    "SELECT a FROM t UNION SELECT b FROM u WHERE c = ?",
    "CREATE TABLE t (id INT PRIMARY KEY, name VARCHAR(10) NOT NULL)",
    "ALTER TABLE t ADD COLUMN c INT; DROP TABLE IF EXISTS u",
    "CREATE INDEX i ON t (a); DROP INDEX i ON t",
    "CREATE VIEW v AS SELECT a FROM t WHERE b = ?",
    "TRUNCATE TABLE t; USE d; SHOW TABLES",
    "EXPLAIN SELECT a FROM t WHERE a = ?; CALL p(?, 1)",
    "BEGIN; COMMIT; ROLLBACK",
    "DROP VIEW v; CREATE TRIGGER g",
    "CREATE DATABASE d; DROP DATABASE d",
    "SELECT FROM",
    "" >>

ConvertInputs == [src : 1..Len(ConvertPool), target : Dialects, strict : BOOLEAN]

InitConvert == \E in \in ConvertInputs : Given(Bytes(ConvertPool[in.src]), in)

SpecConvert == InitConvert /\ [][ConvertCall]_vars

(***************************************************************************)
(* Properties of the renderer's parameters, errors and determinism.        *)
(***************************************************************************)
\* the placeholder tokens the lexer finds from l on, in order, as written
RECURSIVE ParamTokens(_)
ParamTokens(l) ==
    LET r == LexerNext(l)
    IN  IF r.tok.Type = "EOF" THEN <<>>
        ELSE IF r.tok.Type \in {"QUESTION", "NAMEDPARAM"}
        THEN <<r.tok.Raw>> \o ParamTokens(r.l)
        ELSE ParamTokens(r.l)

Placeholders(text) == ParamTokens(NewLexer(text))

\* the source parsed, for what the renderer was given
Parsed == ParseStatements(arg)

\* C14: in text rendered for PostgreSQL the k-th placeholder, left to right
\* over all statements of the call, is $k, counting from 1, whatever the
\* source wrote; in text rendered for MySQL or SQLite every placeholder is ?.
C14_ParamNumbering ==
    (phase = "done" /\ out[1].err = Nil) =>
        LET ps == Placeholders(out[1].s)
        IN  /\ Len(ps) >= Len(Placeholders(arg))
            /\ \A k \in 1..Len(ps) :
                   ps[k] = IF input.target = "postgres"
                           THEN <<Ch("$")>> \o Itoa(k) ELSE <<Ch("?")>>

\* a PostgreSQL rendering of two statements with three placeholders written
\* :x, ? and $7 in the source
C14_Witness ==
    /\ phase = "done"
    /\ out[1].err = Nil
    /\ Len(Parsed.v) = 2
    /\ Placeholders(arg) = <<Bytes(":x"), Bytes("?"), Bytes("$7")>>
    /\ Len(Placeholders(out[1].s)) = 3
    /\ input.target = "postgres"

\* the insert of the source needs a conflict target and has no column to take
NeedsTarget(stmt) ==
    /\ stmt.node = "InsertStmt"
    /\ Len(stmt.OnConflictTarget) = 0
    /\ Len(stmt.Columns) = 0
    /\ Len(stmt.OnConflictUpdate) > 0 \/ Len(stmt.OnDupKey) > 0

\* C16: without strict mode rendering parsed statements returns no error;
\* in strict mode it returns an error only for an upsert that has no conflict
\* target to be reshaped with (the parser yields no statement variant outside
\* the renderer's switch), and text in every other case.
C16_RenderTotal ==
    (phase = "done" /\ Parsed.err = Nil) =>
        /\ ~input.strict => out[1].err = Nil
        /\ out[1].err # Nil =>
               /\ input.strict
               /\ input.target \in {"postgres", "sqlite"}
               /\ \E i \in 1..Len(Parsed.v) : NeedsTarget(Parsed.v[i])
               /\ out[1].s = <<>>
        /\ (input.strict /\ \A i \in 1..Len(Parsed.v) : ~NeedsTarget(Parsed.v[i]))
               => out[1].err = Nil

\* strict mode, SQLite: the upsert without a target or a column is the error
C16_Witness ==
    /\ phase = "done"
    /\ Parsed.err = Nil
    /\ \E i \in 1..Len(Parsed.v) : NeedsTarget(Parsed.v[i])
    /\ input.target = "sqlite"
    /\ input.strict
    /\ out[1].err # Nil

\* C17: two calls of the entry point on the same source with the same target
\* and strict flag return the same bytes and the same error, the PostgreSQL
\* parameter numbers included.
C17_Deterministic ==
    phase = "done" => out[1] = out[2]

\* two PostgreSQL renderings that number their placeholders up to $3
C17_Witness ==
    /\ phase = "done"
    /\ input.target = "postgres"
    /\ out[1].err = Nil
    /\ out[2].err = Nil
    /\ Contains(out[2].s, Bytes("$3"))

(***************************************************************************)
(* INSERT statements whose only upsert clause is ON DUPLICATE KEY UPDATE,  *)
(* with and without a column list.                                         *)
(***************************************************************************)
\* column lists as written, with the first column as the renderer quotes it
UpsertColumns == <<
    [text |-> "", first |-> ""],
    [text |-> " (a)", first |-> "\"a\""],
    [text |-> " (b, a)", first |-> "\"b\""],
    [text |-> " (Id, a, b)", first |-> "\"id\""] >>

\* the assignments as written, and as text for PostgreSQL and for SQLite
\* after the two placeholders of the VALUES row
UpsertAssignments == <<
    [text |-> "a = 1", postgres |-> "\"a\" = 1", sqlite |-> "\"a\" = 1"],
    [text |-> "b = b + 1, a = 'x'",
     postgres |-> "\"b\" = (\"b\" + 1), \"a\" = 'x'",
     sqlite |-> "\"b\" = (\"b\" + 1), \"a\" = 'x'"],
    [text |-> "a = ?, b = IFNULL(b, ?)",
     postgres |-> "\"a\" = $3, \"b\" = COALESCE(\"b\", $4)",
     sqlite |-> "\"a\" = ?, \"b\" = COALESCE(\"b\", ?)"] >>

UpsertInputs ==
    [cols : 1..Len(UpsertColumns), assign : 1..Len(UpsertAssignments),
     target : Dialects, strict : BOOLEAN]

UpsertSource(in) ==
    "INSERT INTO t" \o UpsertColumns[in.cols].text \o " VALUES (?, ?)"
        \o " ON DUPLICATE KEY UPDATE " \o UpsertAssignments[in.assign].text

InitUpsert == \E in \in UpsertInputs : Given(Bytes(UpsertSource(in)), in)

SpecUpsert == InitUpsert /\ [][ConvertCall]_vars

\* text ends with tail
EndsWith(text, tail) ==
    /\ Len(text) >= Len(tail)
    /\ SubSeq(text, Len(text) - Len(tail) + 1, Len(text)) = tail

\* the tail the upsert is to have for the target
ConflictTail(in) ==
    Bytes(" ON CONFLICT (" \o UpsertColumns[in.cols].first \o ") DO UPDATE SET "
          \o UpsertAssignments[in.assign][in.target])

\* C15: an INSERT with only ON DUPLICATE KEY UPDATE assignments, rendered for
\* PostgreSQL or SQLite: with a column list the text ends with ON CONFLICT (c)
\* DO UPDATE SET and the same assignments, c the first column of the list;
\* without a column list strict mode returns an error.
C15_UpsertTarget ==
    (phase = "done" /\ input.target \in {"postgres", "sqlite"}) =>
        IF UpsertColumns[input.cols].text # ""
        THEN /\ out[1].err = Nil
             /\ EndsWith(out[1].s, ConflictTail(input))
        ELSE input.strict => (out[1].err # Nil /\ out[1].s = <<>>)

\* a three-column list rendered for PostgreSQL takes its first column, and the
\* assignments carry on the numbering of the row's placeholders
C15_Witness ==
    /\ phase = "done"
    /\ input.target = "postgres"
    /\ UpsertColumns[input.cols].first = "\"id\""
    /\ input.assign = 3
    /\ out[1].err = Nil
    /\ Contains(out[1].s, Bytes("ON CONFLICT (\"id\") DO UPDATE SET \"a\" = $3"))

(***************************************************************************)
(* The round trip: a source is parsed, the statements are rendered for the *)
(* dialect the source is written in, and the text is parsed again.         *)
(***************************************************************************)
\* renderStatements on the parsed statements, with a renderer for the dialect
RenderCall ==
    /\ phase = "done"
    /\ out.err = Nil
    /\ buf' = renderStatements(NewRenderer(input.dialect, input.strict), out.v)
    /\ phase' = "rendered"
    /\ UNCHANGED <<arg, lex, par, out, input>>

\* the first result with the second beside it
reparsed(first, r) ==
    [v |-> first.v, err |-> first.err, again |-> [v |-> r.v, err |-> r.err]]

\* ParseStatements on the rendered text; the first result is kept beside it
ReparseCall ==
    /\ phase = "rendered"
    /\ buf.err = Nil
    /\ out' = reparsed(out, ParseStatements(buf.s))
    /\ phase' = "reparsed"
    /\ UNCHANGED <<arg, lex, buf, par, input>>

\* statements of the grammar, written as every one of the three dialects
\* accepts them unless a dialect is named
RoundTripPool == <<
    [text |-> "SELECT a, b AS x FROM t WHERE a = 1 AND b > 2", in |-> Dialects],
    [text |-> "SELECT DISTINCT t.a FROM t JOIN u ON t.id = u.id ORDER BY a DESC LIMIT 10 OFFSET 5", in |-> Dialects],
    [text |-> "SELECT COUNT(*), MAX(a) FROM t GROUP BY b HAVING COUNT(*) > 1", in |-> Dialects],
    [text |-> "SELECT a FROM t WHERE b IS NOT NULL AND c IN (1, 2) AND d BETWEEN 1 AND 5", in |-> Dialects],
    [text |-> "SELECT a FROM t WHERE b LIKE 'x%' OR NOT c = 2", in |-> Dialects],
    [text |-> "SELECT CASE WHEN a = 1 THEN 'x' ELSE 'y' END FROM t", in |-> Dialects],
    [text |-> "SELECT a FROM t WHERE EXISTS (SELECT 1 FROM u WHERE u.a = t.a)", in |-> Dialects],
    [text |-> "SELECT a FROM t UNION SELECT b FROM u", in |-> Dialects],
    [text |-> "SELECT a FROM t UNION SELECT b FROM u UNION ALL SELECT c FROM v", in |-> Dialects],
    [text |-> "SELECT a FROM t EXCEPT SELECT b FROM u INTERSECT SELECT c FROM v", in |-> {"postgres", "sqlite"}],
    [text |-> "WITH c AS (SELECT a FROM t) SELECT a FROM c", in |-> Dialects],
    [text |-> "SELECT COALESCE(a, 0) FROM t", in |-> Dialects],
    [text |-> "SELECT IFNULL(a, 0) FROM t", in |-> {"mysql", "sqlite"}],
    [text |-> "INSERT INTO t (a, b) VALUES (1, 'x'), (2, 'y')", in |-> Dialects],
    [text |-> "INSERT INTO t (a) SELECT b FROM u", in |-> Dialects],
    [text |-> "INSERT INTO t (a, b) VALUES (1, 2) ON DUPLICATE KEY UPDATE b = 3", in |-> {"mysql"}],
    [text |-> "INSERT INTO t (a, b) VALUES (1, 2) ON CONFLICT (a) DO UPDATE SET b = 3", in |-> {"postgres", "sqlite"}],
    [text |-> "INSERT INTO t (a) VALUES (1) ON CONFLICT (a) DO NOTHING", in |-> {"postgres", "sqlite"}],
    [text |-> "UPDATE t SET a = 1, b = b + 1 WHERE c = 2", in |-> Dialects],
    [text |-> "UPDATE t SET a = 1 ORDER BY b LIMIT 5", in |-> {"mysql"}],
    [text |-> "DELETE FROM t WHERE a = 1", in |-> Dialects],
    [text |-> "DELETE FROM t WHERE a < 3 ORDER BY b DESC LIMIT 2", in |-> {"mysql"}],
    [text |-> "SELECT a FROM t; DELETE FROM u", in |-> Dialects] >>

RoundTripInputs ==
    { in \in [src : 1..Len(RoundTripPool), dialect : Dialects, strict : BOOLEAN] :
          in.dialect \in RoundTripPool[in.src].in }

InitRoundTrip ==
    \E in \in RoundTripInputs : Built(Bytes(RoundTripPool[in.src].text), "ParseAll", in)

NextRoundTrip == ParseAllCall \/ RenderCall \/ ReparseCall

SpecRoundTrip == InitRoundTrip /\ [][NextRoundTrip]_vars

\* the fields of the tree by what they hold: a node or nothing, a list of
\* nodes, a list of lists of nodes, or a value of its own
NodeFields ==
    {"Left", "Right", "Expr", "Pattern", "Escape", "Lo", "Hi", "Subq", "Operand", "Else",
     "Cond", "Result", "Where", "Having", "Limit", "SetOp", "With", "Count", "Offset", "On",
     "Alias", "Name", "Table", "Select", "Column", "Value", "Type", "Database"}

ListFields ==
    {"Parts", "List", "Args", "Whens", "Columns", "From", "GroupBy", "OrderBy", "Order",
     "Using", "CTEs", "Tables", "Set", "OnDupKey", "OnConflictTarget", "OnConflictUpdate",
     "Cmds"}

RowFields == {"Values"}

ValueFields ==
    {"node", "Op", "Not", "Kind", "Distinct", "Star", "Desc", "All", "Recursive",
     "OnConflictDoNothing", "Ignore", "Replace", "Unquoted", "Raw", "NullsFirst",
     "IfExists", "Cascade"}

\* the tree without what the claim leaves out: the byte offsets, and the
\* spelling of an identifier (its quotes) and of a placeholder
RECURSIVE Strip(_)
Strip(x) ==
    IF x = Nil THEN Nil
    ELSE LET kind == IF "node" \in DOMAIN x THEN x.node ELSE ""
             gone == {"TokPos"} \cup (IF kind \in {"Ident", "Param"} THEN {"Raw"} ELSE {})
         IN  [f \in DOMAIN x \ gone |->
                 CASE kind = "DataType" \/ f \in ValueFields -> x[f]
                   [] f \in NodeFields -> Strip(x[f])
                   [] f \in ListFields -> [i \in DOMAIN x[f] |-> Strip(x[f][i])]
                   [] f \in RowFields ->
                          [i \in DOMAIN x[f] |-> [j \in DOMAIN x[f][i] |-> Strip(x[f][i][j])]]]

StripAll(stmts) == [i \in DOMAIN stmts |-> Strip(stmts[i])]

\* C13: a statement parsed, rendered in the dialect of the source and parsed
\* again gives a tree equal to the first one in node kinds, operators, flags,
\* identifier names, literals, and the contents and order of the clauses.
C13_RoundTrip ==
    phase = "reparsed" =>
        /\ out.again.err = Nil
        /\ StripAll(out.again.v) = StripAll(out.v)

(***************************************************************************)
(* Rendering a chain of set operations: the source of SetOpInputs is       *)
(* parsed and renderSelect renders the head select for a dialect.          *)
(***************************************************************************)
\* renderSelect on the statement ParseOne returned
RenderSelectCall ==
    /\ phase = "done"
    /\ out.err = Nil
    /\ buf' = rendered(renderSelect(NewRenderer(input.target, FALSE), out.v))
    /\ phase' = "rendered"
    /\ UNCHANGED <<arg, lex, par, out, input>>

ChainInputs == [chain : SetOpInputs, target : Dialects]

InitChain == \E in \in ChainInputs : Built(SetOpSource(in.chain), "ParseOne", in)

NextChain == ParseOneCall \/ RenderSelectCall

SpecChain == InitChain /\ [][NextChain]_vars

\* the keyword of a set operation as the renderer writes it
SetOpKeyword(o) ==
    Bytes(" " \o (CASE o.op = "Union" -> "UNION"
                    [] o.op = "Intersect" -> "INTERSECT"
                    [] o.op = "Except" -> "EXCEPT")
          \o (IF o.all THEN " ALL" ELSE "") \o " ")

\* the text of a select of the chain rendered by itself
AloneText(sel, target) == renderSelect(NewRenderer(target, FALSE), sel).b

\* the head select, then for each operation of the chain, in order, its
\* keyword and its right-hand select, each once
RECURSIVE ChainText(_, _, _, _)
ChainText(sels, ops, i, target) ==
    AloneText(sels[i], target) \o
    (IF i > Len(ops) THEN <<>>
     ELSE SetOpKeyword(ops[i]) \o ChainText(sels, ops, i + 1, target))

\* the set operation keywords among the tokens from l on
RECURSIVE SetOpTokens(_)
SetOpTokens(l) ==
    LET r == LexerNext(l)
    IN  IF r.tok.Type = "EOF" THEN 0
        ELSE (IF r.tok.Type \in {"UNION", "INTERSECT", "EXCEPT"} THEN 1 ELSE 0)
             + SetOpTokens(r.l)

\* the SELECT keywords among the tokens from l on
RECURSIVE SelectTokens(_)
SelectTokens(l) ==
    LET r == LexerNext(l)
    IN  IF r.tok.Type = "EOF" THEN 0
        ELSE (IF r.tok.Type = "SELECT" THEN 1 ELSE 0) + SelectTokens(r.l)

\* C28: a select that heads a chain of k set operations is rendered as the
\* head select followed by exactly k operator keywords and exactly k
\* right-hand selects, each once and in chain order, for every k >= 1.
C28_ChainRenderedOnce ==
    (phase = "rendered" /\ Len(input.chain.ops) >= 1) =>
        /\ buf.err = Nil
        /\ SetOpTokens(NewLexer(buf.s)) = Len(input.chain.ops)
        /\ SelectTokens(NewLexer(buf.s)) = Len(input.chain.ops) + 1
        /\ buf.s = ChainText(ChainSelects(out.v), ChainOps(out.v), 1, input.target)

(***************************************************************************)
(* Sources that end where parseIdent is to read a name, and the same       *)
(* sources with the name written.                                          *)
(***************************************************************************)
EofLeads == << "", " ", "\n\n", "/* c */ " >>

\* statements up to the place of an identifier
EofPool == <<
    "USE", "DROP TABLE", "SELECT * FROM", "DELETE FROM", "INSERT INTO", "TRUNCATE TABLE",
    "CALL", "DROP DATABASE", "SELECT a.", "SELECT a FROM t AS", "UPDATE",
    "ALTER TABLE t DROP COLUMN", "DROP TABLE IF EXISTS", "SELECT a FROM t JOIN",
    "DROP TABLE a," >>

\* what follows: nothing, blanks, a comment, or the name
EofTails == << [text |-> "", ends |-> TRUE], [text |-> "  \n", ends |-> TRUE],
               [text |-> " -- c", ends |-> TRUE], [text |-> " x1", ends |-> FALSE] >>

EofInputs == [lead : 1..Len(EofLeads), stmt : 1..Len(EofPool), tail : 1..Len(EofTails)]

EofSource(in) == Bytes(EofLeads[in.lead] \o EofPool[in.stmt] \o EofTails[in.tail].text)

InitEof == \E in \in EofInputs : Built(EofSource(in), "ParseOne", in)

SpecEof == InitEof /\ [][ParseOneCall]_vars

\* some identifier node of the tree has no raw bytes
RECURSIVE HasEmptyIdent(_)
HasEmptyIdent(x) ==
    IF x = Nil THEN FALSE
    ELSE LET kind == IF "node" \in DOMAIN x THEN x.node ELSE ""
         IN  \/ kind = "Ident" /\ Len(x.Raw) = 0
             \/ \E f \in DOMAIN x \ {"TokPos"} :
                    CASE kind = "DataType" \/ f \in ValueFields -> FALSE
                      [] f \in NodeFields -> HasEmptyIdent(x[f])
                      [] f \in ListFields -> \E i \in DOMAIN x[f] : HasEmptyIdent(x[f][i])
                      [] f \in RowFields ->
                             \E i \in DOMAIN x[f] : \E j \in DOMAIN x[f][i] :
                                 HasEmptyIdent(x[f][i][j])

\* C29: a source that ends where the parser requires an identifier is a parse
\* error, and no tree parsed without error holds an identifier node whose raw
\* bytes are empty.
C29_NoIdentAtEof ==
    phase = "done" =>
        /\ EofTails[input.tail].ends => out.err # Nil
        /\ out.err = Nil => ~HasEmptyIdent(out.v)

(***************************************************************************)
(* Expressions of three operands and two binary operators, each operator   *)
(* with the level the grammar declares for it.                             *)
(***************************************************************************)
BinaryOps == <<
    [text |-> "OR", op |-> "OR", level |-> 1],
    [text |-> "AND", op |-> "AND", level |-> 2],
    [text |-> "&&", op |-> "DAMP", level |-> 2],
    [text |-> "=", op |-> "EQ", level |-> 4],
    [text |-> "!=", op |-> "NEQ", level |-> 4],
    [text |-> "<>", op |-> "NEQ", level |-> 4],
    [text |-> "<", op |-> "LT", level |-> 4],
    [text |-> ">", op |-> "GT", level |-> 4],
    [text |-> "<=", op |-> "LTE", level |-> 4],
    [text |-> ">=", op |-> "GTE", level |-> 4],
    [text |-> "@>", op |-> "ATGT", level |-> 4],
    [text |-> "<@", op |-> "LTAT", level |-> 4],
    [text |-> "?", op |-> "QUESTION", level |-> 4],
    [text |-> "?|", op |-> "QMARKPIPE", level |-> 4],
    [text |-> "?&", op |-> "QMARKAMP", level |-> 4],
    [text |-> "|", op |-> "PIPE", level |-> 5],
    [text |-> "^", op |-> "CARET", level |-> 5],
    [text |-> "&", op |-> "AMPERSAND", level |-> 6],
    [text |-> "<<", op |-> "LSHIFT", level |-> 7],
    [text |-> ">>", op |-> "RSHIFT", level |-> 7],
    [text |-> "+", op |-> "PLUS", level |-> 8],
    [text |-> "-", op |-> "MINUS", level |-> 8],
    [text |-> "||", op |-> "DBAR", level |-> 8],
    [text |-> "*", op |-> "STAR", level |-> 9],
    [text |-> "/", op |-> "SLASH", level |-> 9],
    [text |-> "%", op |-> "PERCENT", level |-> 9],
    [text |-> "->", op |-> "ARROW", level |-> 11],
    [text |-> "->>", op |-> "DARROW2", level |-> 11],
    [text |-> "#>", op |-> "HASHARROW", level |-> 11],
    [text |-> "#>>", op |-> "HASHDARROW", level |-> 11] >>

PrecInputs == [first : 1..Len(BinaryOps), second : 1..Len(BinaryOps)]

PrecSource(in) ==
    Bytes("SELECT a " \o BinaryOps[in.first].text \o " b "
          \o BinaryOps[in.second].text \o " c")

InitPrec == \E in \in PrecInputs : Built(PrecSource(in), "ParseOne", in)

SpecPrec == InitPrec /\ [][ParseOneCall]_vars

\* e is the operand written as name
IsOperand(e, name) == e.node = "Ident" /\ e.Unquoted = Bytes(name)

\* e is l op r over the operands written as l and r
IsBinary(e, op, l, r) ==
    /\ e.node = "BinaryExpr"
    /\ e.Op = op
    /\ IsOperand(e.Left, l)
    /\ IsOperand(e.Right, r)

\* C24: in a op1 b op2 c an operator of a higher level binds tighter than its
\* neighbour of a lower level, and operators of one level group to the left:
\* the tree is a op1 (b op2 c) when op2 is of a higher level than op1, and
\* (a op1 b) op2 c otherwise.
C24_PrecedenceLevels ==
    phase = "done" =>
        LET o1 == BinaryOps[input.first]
            o2 == BinaryOps[input.second]
            e == out.v.Columns[1].Expr
        IN  /\ out.err = Nil
            /\ Len(out.v.Columns) = 1
            /\ e.node = "BinaryExpr"
            /\ IF o2.level > o1.level
               THEN /\ e.Op = o1.op
                    /\ IsOperand(e.Left, "a")
                    /\ IsBinary(e.Right, o2.op, "b", "c")
               ELSE /\ e.Op = o2.op
                    /\ IsBinary(e.Left, o1.op, "a", "b")
                    /\ IsOperand(e.Right, "c")

\* a || b * c groups the product first, a - b + c the difference first, and
\* a -> b OR c the extraction first
C24_Witness ==
    /\ phase = "done"
    /\ \/ /\ BinaryOps[input.first].op = "DBAR"
          /\ BinaryOps[input.second].op = "STAR"
          /\ IsBinary(out.v.Columns[1].Expr.Right, "STAR", "b", "c")
       \/ /\ BinaryOps[input.first].op = "MINUS"
          /\ BinaryOps[input.second].op = "PLUS"
          /\ IsBinary(out.v.Columns[1].Expr.Left, "MINUS", "a", "b")
       \/ /\ BinaryOps[input.first].op = "ARROW"
          /\ BinaryOps[input.second].op = "OR"
          /\ IsBinary(out.v.Columns[1].Expr.Left, "ARROW", "a", "b")

(***************************************************************************)
(* e [NOT] LIKE p1 || p2, as a select column and as a WHERE condition.     *)
(***************************************************************************)
LikeContexts == << [pre |-> "SELECT ", post |-> " FROM t", where |-> FALSE],
                   [pre |-> "SELECT 1 FROM t WHERE ", post |-> "", where |-> TRUE],
                   [pre |-> "SELECT ", post |-> "", where |-> FALSE] >>

LikeOperands == << "name", "t.name", "'abc'" >>

LikePatterns == << "'x'", "'%'", "p", "?" >>

LikeInputs ==
    [ctx : 1..Len(LikeContexts), not : BOOLEAN, e : 1..Len(LikeOperands),
     p1 : 1..Len(LikePatterns), p2 : 1..Len(LikePatterns)]

LikeSource(in) ==
    Bytes(LikeContexts[in.ctx].pre \o LikeOperands[in.e]
          \o (IF in.not THEN " NOT LIKE " ELSE " LIKE ")
          \o LikePatterns[in.p1] \o " || " \o LikePatterns[in.p2]
          \o LikeContexts[in.ctx].post)

InitLike == \E in \in LikeInputs : Built(LikeSource(in), "ParseOne", in)

SpecLike == InitLike /\ [][ParseOneCall]_vars

\* the expression of the statement in the context of the input
LikeExprOf(stmt, in) ==
    IF LikeContexts[in.ctx].where THEN stmt.Where ELSE stmt.Columns[1].Expr

\* the tree of an operand or a pattern written alone, without its offsets
Alone(text) == Strip(ParseStatement(Bytes("SELECT " \o text)).v.Columns[1].Expr)

\* C26: e [NOT] LIKE p1 || p2 is a LIKE node over e whose pattern is the
\* concatenation p1 || p2, not a concatenation whose left operand is the
\* LIKE node.
C26_LikePatternConcat ==
    phase = "done" =>
        LET x == LikeExprOf(out.v, input)
        IN  /\ out.err = Nil
            /\ x.node = "LikeExpr"
            /\ x.Not = input.not
            /\ Strip(x.Expr) = Alone(LikeOperands[input.e])
            /\ x.Pattern.node = "BinaryExpr"
            /\ x.Pattern.Op = "DBAR"
            /\ Strip(x.Pattern.Left) = Alone(LikePatterns[input.p1])
            /\ Strip(x.Pattern.Right) = Alone(LikePatterns[input.p2])

(***************************************************************************)
(* A NOT after a left operand, followed by LIKE, IN, BETWEEN or by         *)
(* something else, as a select column and as a WHERE condition.            *)
(***************************************************************************)
NotContexts == << [pre |-> "SELECT ", post |-> " FROM t", where |-> FALSE],
                  [pre |-> "SELECT 1 FROM t WHERE ", post |-> " ORDER BY z", where |-> TRUE] >>

NotOperands == << "a", "t.a", "1", "f(a)" >>

\* what follows NOT, and the node it is to open
NotFollowers == <<
    [text |-> "LIKE 'x'", node |-> "LikeExpr"],
    [text |-> "like p", node |-> "LikeExpr"],
    [text |-> "IN (1, 2)", node |-> "InExpr"],
    [text |-> "IN (SELECT 1)", node |-> "InExpr"],
    [text |-> "BETWEEN 1 AND 2", node |-> "BetweenExpr"],
    [text |-> "between b AND c", node |-> "BetweenExpr"],
    [text |-> "b", node |-> ""],
    [text |-> "NULL", node |-> ""],
    [text |-> "= 1", node |-> ""],
    [text |-> ", c", node |-> ""],
    [text |-> "NOT LIKE 'x'", node |-> ""],
    [text |-> "(1)", node |-> ""],
    [text |-> "likes 'x'", node |-> ""],
    [text |-> "", node |-> ""] >>

NotInputs == [ctx : 1..Len(NotContexts), e : 1..Len(NotOperands), next : 1..Len(NotFollowers)]

NotPrefix(in) == NotContexts[in.ctx].pre \o NotOperands[in.e] \o " "

NotSource(in) ==
    Bytes(NotPrefix(in) \o "NOT " \o NotFollowers[in.next].text \o NotContexts[in.ctx].post)

\* the offset of NOT in the source
NotPos(in) == Len(NotPrefix(in))

InitNot == \E in \in NotInputs : Built(NotSource(in), "ParseOne", in)

SpecNot == InitNot /\ [][ParseOneCall]_vars

\* the expression of the statement in the context of the input
NotExprOf(stmt, in) ==
    IF NotContexts[in.ctx].where THEN stmt.Where ELSE stmt.Columns[1].Expr

\* the tree holds a unary NOT made of the token at offset pos
RECURSIVE HasUnaryNot(_, _)
HasUnaryNot(x, pos) ==
    IF x = Nil THEN FALSE
    ELSE LET kind == IF "node" \in DOMAIN x THEN x.node ELSE ""
         IN  \/ kind = "UnaryExpr" /\ x.Op = "NOT" /\ x.TokPos = pos
             \/ \E f \in DOMAIN x \ {"TokPos"} :
                    CASE kind = "DataType" \/ f \in ValueFields -> FALSE
                      [] f \in NodeFields -> HasUnaryNot(x[f], pos)
                      [] f \in ListFields -> \E i \in DOMAIN x[f] : HasUnaryNot(x[f][i], pos)
                      [] f \in RowFields ->
                             \E i \in DOMAIN x[f] : \E j \in DOMAIN x[f][i] :
                                 HasUnaryNot(x[f][i][j], pos)

\* NOT and the keyword after it opened the negated node over the operand, and
\* the statement was read to its end
NegatedNode(in) ==
    LET x == NotExprOf(out.v, in)
    IN  /\ out.err = Nil
        /\ x.node = NotFollowers[in.next].node
        /\ x.Not
        /\ x.TokPos = NotPos(in)
        /\ Strip(x.Expr) = Alone(NotOperands[in.e])
        /\ ~HasUnaryNot(out.v, NotPos(in))
        /\ par.tok.Type = "EOF"

\* C25: after a left operand NOT opens a
\* negated LIKE, IN or BETWEEN node only when that keyword follows it, and a
\* NOT followed by anything else is parsed as a unary NOT.
C25_NotAfterOperand ==
    phase = "done" =>
        IF NotFollowers[input.next].node # ""
        THEN NegatedNode(input)
        ELSE out.err = Nil /\ HasUnaryNot(out.v, NotPos(input))

\* What the code does with a NOT that no LIKE, IN or BETWEEN follows: it is
\* not consumed; the expression ends with the left operand, NOT stays the
\* current token and the token peeked after it stays in the lookahead slot.
NotLeftCurrent ==
    (phase = "done" /\ NotFollowers[input.next].node = "") =>
        /\ out.err = Nil
        /\ Strip(NotExprOf(out.v, input)) = Alone(NotOperands[input.e])
        /\ par.tok.Type = "NOT"
        /\ par.tok.Pos = NotPos(input)
        /\ par.hasPeek
        /\ par.peek = TokenFrom(NewLexer(arg), NotPos(input) + 3)

(***************************************************************************)
(* advance and peekToken called in any order on a parser just built; buf   *)
(* records the tokens that became current, the first one by New.           *)
(***************************************************************************)
MaxCurrent == 7

LookSources == {
    Bytes(""), Bytes(" "), Bytes("a"), Bytes("a b"), Bytes("a.b c"), Bytes("1 + 2 - 3"),
    Bytes("a NOT LIKE 'x'"), Bytes("-- c\n a"), Bytes("a /* c */ b"), Bytes("'s' \"q\" b"),
    Bytes("x'1' @v ?"), Bytes(">= <> || ;"), Bytes("SELECT * FROM t"), Bytes("f(a, 1)") }

InitLook ==
    /\ arg \in LookSources
    /\ par = NewParser(arg)
    /\ buf = <<par.tok>>
    /\ out = Nil
    /\ phase = "look"
    /\ input = <<arg>>
    /\ lex = Nil

\* p.advance(): the token it makes current is recorded
AdvanceCall ==
    /\ phase = "look"
    /\ Len(buf) < MaxCurrent
    /\ par' = advance(par)
    /\ buf' = Append(buf, par'.tok)
    /\ UNCHANGED <<arg, lex, phase, out, input>>

\* p.peekToken(): out is the token it returned
PeekCall ==
    /\ phase = "look"
    /\ par' = peekToken(par)
    /\ out' = par'.peek
    /\ UNCHANGED <<arg, lex, buf, phase, input>>

NextLook == AdvanceCall \/ PeekCall

SpecLook == InitLook /\ [][NextLook]_vars

\* the n-th token the lexer returns, counting from 1; EOF again after EOF
RECURSIVE NthToken(_, _)
NthToken(l, n) ==
    LET r == LexerNext(l)
    IN  IF n <= 1 THEN r.tok ELSE NthToken(r.l, n - 1)

\* C27: for any interleaving of advance and peekToken the tokens that become
\* current are, in order, the tokens the lexer returns for the source, none
\* lost, duplicated or moved, and a filled lookahead slot holds the token
\* right after the current one.
C27_LookaheadInOrder ==
    phase = "look" =>
        /\ \A i \in 1..Len(buf) : buf[i] = NthToken(NewLexer(arg), i)
        /\ par.tok = buf[Len(buf)]
        /\ par.hasPeek => par.peek = NthToken(NewLexer(arg), Len(buf) + 1)

\* a peeked token became current by advance, and the token after it was
\* peeked in turn
C27_Witness ==
    /\ phase = "look"
    /\ Len(buf) >= 3
    /\ par.hasPeek
    /\ out = par.peek
    /\ par.peek.Type # "EOF"
    /\ buf[Len(buf)].Pos < par.peek.Pos
    /\ buf[Len(buf) - 1].Pos < buf[Len(buf)].Pos

(***************************************************************************)
(* The analysis report (analyze.go).  A finding is kept as its severity,   *)
(* its code and its statement index; its message, problem and              *)
(* recommendation are fixed texts of the code, one per call site.          *)
(***************************************************************************)
BulkInsertRows == 1000

addFinding(report, sev, code, idx) ==
    [report EXCEPT !.Findings =
        Append(@, [Severity |-> sev, Code |-> code, StatementIndex |-> idx])]

\* addFinding under a condition
findingIf(report, cond, sev, code, idx) ==
    IF cond THEN addFinding(report, sev, code, idx) ELSE report

hasSelectStar(cols) == \E i \in 1..Len(cols) : cols[i].Star

\* strings.HasPrefix(string(raw), s)
HasPrefix(raw, s) == Len(raw) >= Len(s) /\ SubSeq(raw, 1, Len(s)) = Bytes(s)

RECURSIVE analyzeExpr(_, _, _, _)

\* for _, e := range list { analyzeExpr(e, ...) }, from element i on
RECURSIVE analyzeExprs(_, _, _, _, _)
analyzeExprs(list, i, idx, report, opts) ==
    IF i > Len(list) THEN report
    ELSE analyzeExprs(list, i + 1, idx, analyzeExpr(list[i], idx, report, opts), opts)

\* the expressions of the select columns
columnExprs(cols) == [i \in 1..Len(cols) |-> cols[i].Expr]

\* the columns and then the WHERE clause of a subquery
analyzeSubq(sq, idx, report, opts) ==
    IF sq = Nil THEN report
    ELSE analyzeExpr(sq.Where, idx,
            analyzeExprs(columnExprs(sq.Columns), 1, idx, report, opts), opts)

\* for _, w := range ex.Whens: the condition and then the result of each
whenExprs(whens) ==
    [i \in 1..2 * Len(whens) |->
        IF i % 2 = 1 THEN whens[(i + 1) \div 2].Cond ELSE whens[i \div 2].Result]

analyzeExpr(e, idx, report, opts) ==
    IF e = Nil THEN report
    ELSE CASE e.node = "LikeExpr" ->
                analyzeExpr(e.Escape, idx,
                analyzeExpr(e.Pattern, idx,
                analyzeExpr(e.Expr, idx,
                    findingIf(report,
                        /\ e.Pattern.node = "Literal"
                        /\ HasPrefix(e.Pattern.Raw, "'%") \/ HasPrefix(e.Pattern.Raw, "\"%"),
                        "info", "LIKE_LEADING_WILDCARD", idx), opts), opts), opts)
           [] e.node = "BinaryExpr" ->
                analyzeExpr(e.Right, idx,
                analyzeExpr(e.Left, idx,
                    findingIf(report, equalASCIIFold(Bytes(String(e.Op)), "or"),
                              "info", "OR_PREDICATE", idx), opts), opts)
           [] e.node = "UnaryExpr" -> analyzeExpr(e.Expr, idx, report, opts)
           [] e.node = "FuncCall" ->
                LET single == e.Name # Nil /\ Len(e.Name.Parts) = 1
                    fn == IF single THEN ToUpper(e.Name.Parts[1].Unquoted) ELSE <<>>
                IN  analyzeExprs(e.Args, 1, idx,
                        findingIf(
                            findingIf(report,
                                single /\ opts.Dialect = "postgres" /\ fn = Bytes("IFNULL"),
                                "warning", "FUNCTION_DIALECT_REWRITE", idx),
                            single /\ opts.Dialect = "mysql" /\ fn = Bytes("COALESCE"),
                            "info", "FUNCTION_DIALECT_REWRITE", idx), opts)
           [] e.node = "CaseExpr" ->
                analyzeExprs(whenExprs(e.Whens), 1, idx,
                    analyzeExpr(e.Else, idx,
                    analyzeExpr(e.Operand, idx, report, opts), opts), opts)
           [] e.node = "BetweenExpr" ->
                analyzeExpr(e.Hi, idx,
                analyzeExpr(e.Lo, idx,
                analyzeExpr(e.Expr, idx, report, opts), opts), opts)
           [] e.node = "InExpr" ->
                analyzeSubq(e.Subq, idx,
                    analyzeExprs(e.List, 1, idx,
                    analyzeExpr(e.Expr, idx, report, opts), opts), opts)
           [] e.node = "IsNullExpr" -> analyzeExpr(e.Expr, idx, report, opts)
           [] e.node \in {"ExistsExpr", "SubqueryExpr"} -> analyzeSubq(e.Subq, idx, report, opts)
           [] e.node = "CastExpr" -> analyzeExpr(e.Expr, idx, report, opts)
           [] OTHER -> report

\* for cur := s.SetOp; cur != nil; cur = cur.Right.SetOp
RECURSIVE unionFindings(_, _, _)
unionFindings(cur, idx, report) ==
    IF cur = Nil THEN report
    ELSE unionFindings(cur.Right.SetOp, idx,
            findingIf(report, cur.Op = "Union" /\ ~cur.All, "info", "UNION_DISTINCT_COST", idx))

\* for _, tr := range s.From, from element i on
RECURSIVE crossJoinFindings(_, _, _, _)
crossJoinFindings(from, i, idx, report) ==
    IF i > Len(from) THEN report
    ELSE crossJoinFindings(from, i + 1, idx,
            findingIf(report, from[i].node = "JoinTable" /\ from[i].Kind = "CrossJoin",
                      "warning", "CROSS_JOIN", idx))

\* for _, c := range s.Columns of a CREATE TABLE, from element i on
RECURSIVE columnFindings(_, _, _, _, _)
columnFindings(cols, i, idx, report, opts) ==
    IF i > Len(cols) THEN report
    ELSE LET c == cols[i]
         IN  columnFindings(cols, i + 1, idx,
                findingIf(
                    findingIf(report, c.Type # Nil /\ equalASCIIFold(c.Type.Name, "jsonb"),
                              "info", "JSONB_DIALECT_NOTE", idx),
                    c.AutoIncrement /\ opts.Dialect = "postgres",
                    "info", "AUTO_INCREMENT_REWRITE", idx), opts)

\* the values of the assignments
assignedValues(set) == [i \in 1..Len(set) |-> set[i].Value]

analyzeStatement(s, idx, report, opts) ==
    CASE s.node = "SelectStmt" ->
            analyzeExprs(columnExprs(s.Columns), 1, idx,
            analyzeExpr(s.Having, idx,
            analyzeExpr(s.Where, idx,
            crossJoinFindings(s.From, 1, idx,
            unionFindings(s.SetOp, idx,
                findingIf(report, hasSelectStar(s.Columns), "warning", "SELECT_STAR", idx))),
            opts), opts), opts)
      [] s.node = "InsertStmt" ->
            LET conflict == Len(s.OnConflictUpdate) > 0 \/ s.OnConflictDoNothing
                r1 == findingIf(report, Len(s.Values) > BulkInsertRows,
                                "info", "BULK_INSERT_SIZE", idx)
                r2 == findingIf(r1, Len(s.OnDupKey) > 0 \/ conflict,
                                "info", "UPSERT_PRESENT", idx)
                r3 == findingIf(r2, opts.Dialect = "mysql" /\ conflict,
                                "warning", "DIALECT_UPSERT_MISMATCH", idx)
                r4 == findingIf(r3, opts.Dialect = "postgres" /\ Len(s.OnDupKey) > 0,
                                "warning", "DIALECT_UPSERT_MISMATCH", idx)
                r5 == IF s.Select # Nil
                      THEN analyzeExprs(columnExprs(s.Select.Columns), 1, idx, r4, opts)
                      ELSE r4
            IN  findingIf(r5, s.Replace /\ opts.Dialect = "postgres",
                          "warning", "REPLACE_NOT_PORTABLE", idx)
      [] s.node = "UpdateStmt" ->
            analyzeExprs(assignedValues(s.Set), 1, idx,
            analyzeExpr(s.Where, idx,
                findingIf(
                    findingIf(report, s.Where = Nil, "critical", "UPDATE_WITHOUT_WHERE", idx),
                    s.Limit # Nil /\ Len(s.Order) = 0,
                    "warning", "UPDATE_LIMIT_NO_ORDER", idx), opts), opts)
      [] s.node = "DeleteStmt" ->
            analyzeExpr(s.Where, idx,
                findingIf(
                    findingIf(report, s.Where = Nil, "critical", "DELETE_WITHOUT_WHERE", idx),
                    s.Limit # Nil /\ Len(s.Order) = 0,
                    "warning", "DELETE_LIMIT_NO_ORDER", idx), opts)
      [] s.node = "CreateTableStmt" -> columnFindings(s.Columns, 1, idx, report, opts)
      [] s.node = "GenericDDLStmt" -> addFinding(report, "warning", "GENERIC_DDL", idx)
      [] s.node = "UseStmt" ->
            findingIf(report, opts.Dialect \in {"postgres", "sqlite"},
                      "warning", "USE_NOT_SUPPORTED", idx)
      [] s.node = "AlterDatabaseStmt" ->
            findingIf(report, opts.Dialect = "sqlite",
                      "warning", "ALTER_DATABASE_NOT_SUPPORTED", idx)
      [] OTHER -> report

\* for i, stmt := range stmts { analyzeStatement(stmt, i, &report, opts) }; i
\* counts from 1 here and the index handed on counts from 0
RECURSIVE analyzeFrom(_, _, _, _)
analyzeFrom(stmts, i, report, opts) ==
    IF i > Len(stmts) THEN report
    ELSE analyzeFrom(stmts, i + 1, analyzeStatement(stmts[i], i - 1, report, opts), opts)

\* AnalyzeSQLWithOptions once ParseStatements has returned r
analyzeParsed(r, opts) ==
    IF r.err # Nil
    THEN addFinding([Valid |-> FALSE, StatementCount |-> 0, Findings |-> <<>>],
                    "critical", "PARSE_ERROR", -1)
    ELSE analyzeFrom(r.v, 1,
            [Valid |-> TRUE, StatementCount |-> Len(r.v), Findings |-> <<>>], opts)

AnalyzeSQLWithOptions(sql, opts) == analyzeParsed(ParseStatements(sql), opts)

\* report := AnalyzeSQLWithOptions(sql, opts)
AnalyzeCall ==
    /\ phase = "Analyze"
    /\ out' = AnalyzeSQLWithOptions(arg, [Dialect |-> input.dialect])
    /\ phase' = "done"
    /\ UNCHANGED <<arg, lex, buf, par, input>>

\* statements, each with the finding the claim expects for it ("" for none)
AnalyzePool ==
    << [text |-> "SELECT * FROM users WHERE name LIKE '%abc'", code |-> "SELECT_STAR"],
       [text |-> "UPDATE users SET active = 1", code |-> "UPDATE_WITHOUT_WHERE"],
       [text |-> "DELETE FROM logs", code |-> "DELETE_WITHOUT_WHERE"],
       [text |-> "SELECT a, * FROM t", code |-> "SELECT_STAR"],
       [text |-> "SELECT a FROM t WHERE a = 1 OR b = 2", code |-> ""],
       [text |-> "UPDATE t SET a = 1 WHERE b = 2", code |-> ""],
       [text |-> "DELETE FROM t WHERE a = 1", code |-> ""],
       [text |-> "WITH c AS (SELECT 1) UPDATE t SET a = 1", code |-> "UPDATE_WITHOUT_WHERE"],
       [text |-> "WITH c AS (SELECT 1) SELECT * FROM c", code |-> "SELECT_STAR"],
       [text |-> "UPDATE t SET a = 1 LIMIT 5", code |-> "UPDATE_WITHOUT_WHERE"],
       [text |-> "DELETE FROM t ORDER BY a LIMIT 1", code |-> "DELETE_WITHOUT_WHERE"],
       [text |-> "SELECT COUNT(*) FROM t", code |-> ""],
       [text |-> "INSERT INTO t (a) VALUES (1) ON DUPLICATE KEY UPDATE a = 2", code |-> ""],
       [text |-> "CREATE TABLE e (p JSONB, id INT AUTO_INCREMENT)", code |-> ""],
       [text |-> "USE db", code |-> ""],
       [text |-> "SELECT * FROM a CROSS JOIN b UNION SELECT 1", code |-> "SELECT_STAR"],
       [text |-> "SELECT IFNULL(a, 0), CASE WHEN a IN (1) THEN b BETWEEN 1 AND 2 END FROM t",
        code |-> ""],
       [text |-> "CREATE TRIGGER g", code |-> ""],
       [text |-> "REPLACE INTO t SELECT * FROM u", code |-> ""] >>

\* one or two statements of the pool, and the three of TestAnalyzeSQLRiskyPatterns
AnalyzeSeqs ==
    {<<i>> : i \in 1..Len(AnalyzePool)}
        \cup {<<i, j>> : i, j \in 1..Len(AnalyzePool)}
        \cup {<<1, 2, 3>>}

AnalyzeInputs == [stmts : AnalyzeSeqs, trail : {"", ";"}, dialect : {""} \cup Dialects]

RECURSIVE JoinTexts(_, _)
JoinTexts(idx, i) ==
    IF i > Len(idx) THEN ""
    ELSE (IF i > 1 THEN "; " ELSE "") \o AnalyzePool[idx[i]].text \o JoinTexts(idx, i + 1)

AnalyzeSource(in) == Bytes(JoinTexts(in.stmts, 1) \o in.trail)

InitAnalyze ==
    \E in \in AnalyzeInputs :
        /\ arg = AnalyzeSource(in)
        /\ input = in
        /\ phase = "Analyze"
        /\ out = Nil
        /\ par = Nil
        /\ lex = Nil
        /\ buf = <<>>

SpecAnalyze == InitAnalyze /\ [][AnalyzeCall]_vars

\* the report holds a finding of the code for the statement of the index
Found(report, code, idx) ==
    \E k \in 1..Len(report.Findings) :
        report.Findings[k].Code = code /\ report.Findings[k].StatementIndex = idx

\* C23: for a source that parses the report is valid, its StatementCount is
\* the number of statements of the source, and it holds an
\* UPDATE_WITHOUT_WHERE finding for every UPDATE without WHERE, a
\* DELETE_WITHOUT_WHERE finding for every DELETE without WHERE and a
\* SELECT_STAR finding for every top-level SELECT with a bare * column, each
\* with the zero-based index of its statement.
C23_AnalysisReport ==
    (phase = "done" /\ ParseStatements(arg).err = Nil) =>
        /\ out.Valid
        /\ out.StatementCount = Len(input.stmts)
        /\ \A i \in 1..Len(input.stmts) :
               AnalyzePool[input.stmts[i]].code # "" =>
                   Found(out, AnalyzePool[input.stmts[i]].code, i - 1)

(***************************************************************************)
(* The arena (parser.go, second part).  An arena is [slabs, cur, off,      *)
(* made]: slabs is the list a.slabs, each slab [id, len, writes]; cur is   *)
(* the id of the slab a.cur is (0 for nil); made counts the make([]byte)   *)
(* calls and names the slabs.  The bytes of a slab are kept as the list of *)
(* the writes made into it, each [off, size, v]: the value v stored in the *)
(* size bytes from off on.  A value is [epoch, k]: the k-th value written, *)
(* during the parse that followed the epoch-th reset.                      *)
(***************************************************************************)
initialSlabSize == 8192

growFactor == 2

NewArena == [slabs |-> <<>>, cur |-> 0, off |-> 0, made |-> 0]

\* the bytes make([]byte, size) returns
Zero == [epoch |-> -1, k |-> 0]

\* bytes that are not one whole value
Torn == [epoch |-> -2, k |-> 0]

\* the places in a.slabs of the slab named id
SlabAt(a, id) == {i \in 1..Len(a.slabs) : a.slabs[i].id = id}

\* len(a.cur)
curLen(a) ==
    IF a.cur = 0 THEN 0 ELSE a.slabs[CHOOSE i \in SlabAt(a, a.cur) : TRUE].len

\* slab := make([]byte, size); a.slabs = append(a.slabs, slab); a.cur = slab; a.off = 0
grow(a, size) ==
    [a EXCEPT !.slabs = Append(@, [id |-> a.made + 1, len |-> size, writes |-> <<>>]),
              !.cur = a.made + 1, !.off = 0, !.made = @ + 1]

\* alloc without the rounding to 8 bytes
allocUnrounded(a, n0) ==
    LET a1 == IF a.off + n0 > curLen(a)
              THEN grow(a, IF curLen(a) * growFactor < n0 + 8
                           THEN n0 + initialSlabSize ELSE curLen(a) * growFactor)
              ELSE a
    IN  [a |-> [a1 EXCEPT !.off = @ + n0],
         r |-> [slab |-> a1.cur, off |-> a1.off, n |-> n0, req |-> n0]]

\* a.alloc(n0): the arena after the call and the region returned, with the
\* size asked for
alloc(a, n0) ==
    LET n == ((n0 + 7) \div 8) * 8
        a1 == IF a.off + n > curLen(a)
              THEN grow(a, IF curLen(a) * growFactor < n + 8
                           THEN n + initialSlabSize ELSE curLen(a) * growFactor)
              ELSE a
    IN  [a |-> [a1 EXCEPT !.off = @ + n],
         r |-> [slab |-> a1.cur, off |-> a1.off, n |-> n, req |-> n0]]

\* a.reset()
reset(a) ==
    IF Len(a.slabs) > 0
    THEN [a EXCEPT !.slabs = <<a.slabs[1]>>, !.cur = a.slabs[1].id, !.off = 0]
    ELSE a

\* a value of size bytes is stored at off of the slab named id
store(a, id, off, size, v) ==
    [a EXCEPT !.slabs =
        [i \in 1..Len(a.slabs) |->
            IF a.slabs[i].id = id
            THEN [a.slabs[i] EXCEPT !.writes = Append(@, [off |-> off, size |-> size, v |-> v])]
            ELSE a.slabs[i]]]

\* the writes of w that touch the size bytes from off on
Touching(w, off, size) ==
    {k \in 1..Len(w) : w[k].off < off + size /\ off < w[k].off + w[k].size}

\* the value read from the size bytes at off of the slab named id
load(a, id, off, size) ==
    IF SlabAt(a, id) = {} THEN Torn
    ELSE LET w == a.slabs[CHOOSE i \in SlabAt(a, id) : TRUE].writes
             hit == Touching(w, off, size)
         IN  IF hit = {} THEN Zero
             ELSE LET last == CHOOSE k \in hit : \A j \in hit : j <= k
                  IN  IF w[last].off = off /\ w[last].size = size THEN w[last].v ELSE Torn

\* arenaNode(a, v) for a v of size bytes: the arena, the pointer and the
\* region alloc gave
arenaNode(a, size, v) ==
    LET r == alloc(a, size)
    IN  [a |-> store(r.a, r.r.slab, r.r.off, size, v),
         v |-> [slab |-> r.r.slab, off |-> r.r.off, size |-> size],
         given |-> <<r.r>>]

\* dst := a.alloc(len(raw))[:len(raw)] of lowerASCIIStringArena and the loop
\* that fills dst
lowerDst(a, n, v) ==
    LET r == alloc(a, n)
    IN  [a |-> store(r.a, r.r.slab, r.r.off, n, v),
         v |-> [slab |-> r.r.slab, off |-> r.r.off, size |-> n],
         given |-> <<r.r>>]

\* a nil []T, elem being unsafe.Sizeof of a T
NilSlice(elem) == [slab |-> 0, off |-> 0, len |-> 0, cap |-> 0, elem |-> elem]

\* arenaMakeSlice returning the whole capacity as the length
arenaMakeSliceFull(a, n, capn, elem) ==
    LET c == IF capn < n THEN n ELSE capn
    IN  IF c = 0 THEN [a |-> a, v |-> NilSlice(elem), given |-> <<>>]
        ELSE LET r == alloc(a, elem * c)
             IN  [a |-> r.a,
                  v |-> [slab |-> r.r.slab, off |-> r.r.off, len |-> c, cap |-> c,
                         elem |-> elem],
                  given |-> <<r.r>>]

\* arenaMakeSlice[T](a, n, capn)
arenaMakeSlice(a, n, capn, elem) ==
    LET c == IF capn < n THEN n ELSE capn
    IN  IF c = 0 THEN [a |-> a, v |-> NilSlice(elem), given |-> <<>>]
        ELSE LET r == alloc(a, elem * c)
             IN  [a |-> r.a,
                  v |-> [slab |-> r.r.slab, off |-> r.r.off, len |-> n, cap |-> c,
                         elem |-> elem],
                  given |-> <<r.r>>]

\* s[i], i counted from 0
elemAt(a, s, i) == load(a, s.slab, s.off + i * s.elem, s.elem)

\* the elements of s, in order
Contents(a, s) == [i \in 1..s.len |-> elemAt(a, s, i - 1)]

\* copy(ns, s), from element i on
RECURSIVE copyFrom(_, _, _, _)
copyFrom(a, ns, s, i) ==
    IF i >= s.len \/ i >= ns.len THEN a
    ELSE copyFrom(store(a, ns.slab, ns.off + i * ns.elem, ns.elem, elemAt(a, s, i)),
                  ns, s, i + 1)

\* arenaAppend(a, s, v)
arenaAppend(a, s, v) ==
    IF s.len < s.cap
    THEN [a |-> store(a, s.slab, s.off + s.len * s.elem, s.elem, v),
          v |-> [s EXCEPT !.len = @ + 1],
          given |-> <<>>]
    ELSE LET m == arenaMakeSlice(a, s.len + 1, IF s.cap > 0 THEN s.cap * 2 ELSE 4, s.elem)
         IN  [a |-> store(copyFrom(m.a, m.v, s, 0),
                          m.v.slab, m.v.off + s.len * s.elem, s.elem, v),
              v |-> m.v,
              given |-> m.given]

(***************************************************************************)
(* A parse using the arena, and Reset between parses.  buf is the arena,   *)
(* out the regions alloc has returned since the last reset, par what the   *)
(* running parse holds: the nodes (and lowercased names) it built, each    *)
(* with the value put there, its node sequences, each with the values      *)
(* appended, and the backings its sequences grew out of, each with the     *)
(* values it held.  input counts the resets, the values and the calls.     *)
(***************************************************************************)
MaxOps == 4

MaxResets == 2

\* unsafe.Sizeof of node types: NullLit and StarExpr, Ident
NodeSizes == {4, 48}

\* unsafe.Sizeof of the elements of two node sequences: []*Ident and []Expr
ElemSizes == <<8, 16>>

\* how many elements a loop of the parser appends
AppendRuns == {1, 4}

\* the lengths of the names lowerASCIIStringArena copies
LowerLens == {5, 8200}

NoHoldings ==
    [nodes |-> <<>>,
     seqs |-> [i \in 1..Len(ElemSizes) |-> [hdr |-> NilSlice(ElemSizes[i]), vals |-> <<>>]],
     old |-> <<>>]

\* the next value to store
Fresh(in) == [epoch |-> in.resets, k |-> in.count + 1]

InitArena ==
    /\ buf = NewArena
    /\ par = NoHoldings
    /\ out = <<>>
    /\ input = [resets |-> 0, count |-> 0, ops |-> 0]
    /\ arg = <<>>
    /\ lex = Nil
    /\ phase = "arena"

\* the state after a node or a name was put at r.v
built(h, r) ==
    [a |-> r.a,
     par |-> [h.par EXCEPT !.nodes = Append(@, [ptr |-> r.v, val |-> Fresh(h.in)])],
     out |-> h.out \o r.given,
     in |-> [h.in EXCEPT !.count = @ + 1]]

\* the state after sequence i was replaced by what arenaAppend returned
appended(h, i, r) ==
    LET s == h.par.seqs[i]
        grew == s.hdr.cap > 0 /\ (r.v.slab # s.hdr.slab \/ r.v.off # s.hdr.off)
    IN  [a |-> r.a,
         par |-> [h.par EXCEPT !.seqs[i] = [hdr |-> r.v, vals |-> Append(s.vals, Fresh(h.in))],
                               !.old = IF grew THEN Append(@, s) ELSE @],
         out |-> h.out \o r.given,
         in |-> [h.in EXCEPT !.count = @ + 1]]

\* for k items: seq = arenaAppend(&p.arena, seq, item)
RECURSIVE appendRun(_, _, _)
appendRun(h, i, k) ==
    IF k = 0 THEN h
    ELSE appendRun(appended(h, i, arenaAppend(h.a, h.par.seqs[i].hdr, Fresh(h.in))), i, k - 1)

Holding == [a |-> buf, par |-> par, out |-> out, in |-> input]

\* the variables take the state h, one more call counted
Becomes(h) ==
    /\ buf' = h.a
    /\ par' = h.par
    /\ out' = h.out
    /\ input' = [h.in EXCEPT !.ops = @ + 1]
    /\ UNCHANGED <<arg, lex, phase>>

\* arenaNode(&p.arena, v)
NodeCall ==
    /\ phase = "arena"
    /\ input.ops < MaxOps
    /\ \E size \in NodeSizes : Becomes(built(Holding, arenaNode(buf, size, Fresh(input))))

\* lowerASCIIStringArena(&p.arena, raw) of a raw with an upper-case letter
LowerCall ==
    /\ phase = "arena"
    /\ input.ops < MaxOps
    /\ \E n \in LowerLens : Becomes(built(Holding, lowerDst(buf, n, Fresh(input))))

\* a loop of arenaAppend calls on one sequence
AppendCall ==
    /\ phase = "arena"
    /\ input.ops < MaxOps
    /\ \E i \in 1..Len(ElemSizes), k \in AppendRuns : Becomes(appendRun(Holding, i, k))

\* p.arena.reset() of Reset; the next parse holds nothing yet
ArenaResetCall ==
    /\ phase = "arena"
    /\ input.resets < MaxResets
    /\ buf' = reset(buf)
    /\ par' = NoHoldings
    /\ out' = <<>>
    /\ input' = [input EXCEPT !.resets = @ + 1]
    /\ UNCHANGED <<arg, lex, phase>>

NextArena == NodeCall \/ LowerCall \/ AppendCall \/ ArenaResetCall

SpecArena == InitArena /\ [][NextArena]_vars

\* two regions share a byte
Overlap(r, s) == r.slab = s.slab /\ r.off < s.off + s.n /\ s.off < r.off + r.n

\* C30: between resets 0 <= off <= len(current slab), the current slab is the
\* last of the slab list, every region returned has the size asked for rounded
\* up to a multiple of 8 and lies inside one slab, no two regions returned
\* since the last reset overlap, and a node sequence grown by arenaAppend
\* holds all the elements appended, in order, while the backing it grew out
\* of still holds what it held.
C30_ArenaSafety ==
    phase = "arena" =>
        /\ 0 <= buf.off /\ buf.off <= curLen(buf)
        /\ buf.cur = IF buf.slabs = <<>> THEN 0 ELSE buf.slabs[Len(buf.slabs)].id
        /\ \A i \in 1..Len(out) :
            /\ out[i].n % 8 = 0
            /\ out[i].req <= out[i].n /\ out[i].n < out[i].req + 8
            /\ \E j \in SlabAt(buf, out[i].slab) :
                   0 <= out[i].off /\ out[i].off + out[i].n <= buf.slabs[j].len
        /\ \A i, j \in 1..Len(out) : i # j => ~Overlap(out[i], out[j])
        /\ \A i \in 1..Len(par.seqs) : Contents(buf, par.seqs[i].hdr) = par.seqs[i].vals
        /\ \A i \in 1..Len(par.old) : Contents(buf, par.old[i].hdr) = par.old[i].vals

\* a second slab was made, and a sequence of four elements grew into a new
\* backing by a fifth
C30_Witness ==
    /\ phase = "arena"
    /\ Len(buf.slabs) >= 2
    /\ \E i \in 1..Len(par.old) : par.old[i].hdr.len = 4
    /\ \E i \in 1..Len(par.seqs) : par.seqs[i].hdr.len >= 5 /\ par.seqs[i].hdr.cap = 8

\* C22: after a reset nothing stored during an earlier parse can be read
\* through what the new parse built: the bytes of every node and name and
\* every element of every node sequence built since the reset were written
\* by the new parse.
C22_ArenaIsolation ==
    phase = "arena" =>
        /\ \A i \in 1..Len(par.nodes) :
               LET n == par.nodes[i]
               IN  /\ load(buf, n.ptr.slab, n.ptr.off, n.ptr.size) = n.val
                   /\ n.val.epoch = input.resets
        /\ \A i \in 1..Len(par.seqs) :
               \A j \in 1..par.seqs[i].hdr.len :
                   elemAt(buf, par.seqs[i].hdr, j - 1).epoch = input.resets

\* the bytes of slab j that were written before the last reset
Stale(j) ==
    {k \in 1..Len(buf.slabs[j].writes) : buf.slabs[j].writes[k].v.epoch < input.resets}

\* after a reset a node and a sequence lie on bytes an earlier parse wrote
C22_Witness ==
    /\ phase = "arena"
    /\ input.resets >= 1
    /\ \E i \in 1..Len(par.nodes) : \E j \in SlabAt(buf, par.nodes[i].ptr.slab) :
           \E k \in Stale(j) :
               Overlap([slab |-> 0, off |-> par.nodes[i].ptr.off, n |-> par.nodes[i].ptr.size],
                       [slab |-> 0, off |-> buf.slabs[j].writes[k].off,
                        n |-> buf.slabs[j].writes[k].size])
    /\ \E i \in 1..Len(par.seqs) : \E j \in SlabAt(buf, par.seqs[i].hdr.slab) :
           \E k \in Stale(j) :
               Overlap([slab |-> 0, off |-> par.seqs[i].hdr.off,
                        n |-> par.seqs[i].hdr.cap * par.seqs[i].hdr.elem],
                       [slab |-> 0, off |-> buf.slabs[j].writes[k].off,
                        n |-> buf.slabs[j].writes[k].size])

(***************************************************************************)
(* Reset: a parser that has been used is given a new source and is then    *)
(* asked for statements, ParseOne by ParseOne.  par is the parser and buf  *)
(* its arena; out holds what the ParseOne calls since the Reset returned,  *)
(* each with the parser as the call left it.                               *)
(* Beside it runs a parser newly made on the same source: lex holds it,    *)
(* as p, and what the same calls returned on it, as out.                   *)
(* The regions a parse allocates depend on the sizes of the nodes it       *)
(* builds; a run of AllocRuns stands for them.                             *)
(***************************************************************************)
MaxUse == 2

MaxNext == 2

\* the zero Parser
ZeroParser == [lex |-> Nil, tok |-> NoToken, peek |-> NoToken, hasPeek |-> FALSE]

\* l.Reset(src)
LexerReset(l, src) == [l EXCEPT !.src = src, !.pos = 0, !.line = 1, !.col = 1]

\* Reset without p.hasPeek = false
ResetKeepPeek(p, src) ==
    Bind(lexNext(IF p.lex = Nil THEN NewLexer(src) ELSE LexerReset(p.lex, src)), LAMBDA r :
    [p EXCEPT !.lex = r.l, !.tok = r.tok])

\* p.Reset(src), but for p.arena.reset()
Reset(p, src) ==
    Bind(lexNext(IF p.lex = Nil THEN NewLexer(src) ELSE LexerReset(p.lex, src)), LAMBDA r :
    [p EXCEPT !.lex = r.l, !.tok = r.tok, !.hasPeek = FALSE])

ResetSources == {
    Bytes(""),
    Bytes("SELECT a FROM t; SELECT b"),
    Bytes("INSERT INTO t (a) VALUES (1) ON DUPLICATE KEY UPDATE a = 2; USE d"),
    Bytes("SELECT FROM"),
    Bytes("SELECT a NOT b FROM t"),
    Bytes("DROP TABLE t") }

AllocRuns == {<<48, 32>>, <<48, 8200, 16>>}

\* the arena after the allocations of a run, from the i-th on
RECURSIVE allocAll(_, _, _)
allocAll(a, run, i) ==
    IF i > Len(run) THEN a ELSE allocAll(alloc(a, run[i]).a, run, i + 1)

\* what is known of the parser before its last Reset
NotReset == [resets |-> 0, uses |-> 0, hadPeek |-> FALSE, slabs |-> 0, first |-> 0]

InitReset ==
    /\ \/ arg \in ResetSources /\ par = NewParser(arg)
       \/ arg = <<>> /\ par = ZeroParser
    /\ buf = NewArena
    /\ out = <<>>
    /\ input = NotReset
    /\ phase = "used"
    /\ lex = [p |-> Nil, out |-> <<>>]

\* a parse before the Reset allocates a run; its results are dropped
Used ==
    /\ phase = "used"
    /\ input.uses < MaxUse
    /\ par.lex # Nil
    /\ \E run \in AllocRuns : buf' = allocAll(buf, run, 1)
    /\ input' = [input EXCEPT !.uses = @ + 1]
    /\ UNCHANGED <<arg, lex, out, phase>>

\* p.ParseOne() before the Reset
UseParseCall ==
    /\ Used
    /\ par' = ParseOne(par).p

\* a parse left in the middle: one token taken
UseAdvanceCall ==
    /\ Used
    /\ par' = advance(par)

\* a parse left in the middle: one token peeked
UsePeekCall ==
    /\ Used
    /\ par' = peekToken(par)

\* p.Reset(src)
ResetCall ==
    /\ phase = "used"
    /\ \E src \in ResetSources :
        /\ arg' = src
        /\ par' = Reset(par, src)
    /\ lex' = [p |-> NewParser(arg'), out |-> <<>>]
    /\ buf' = reset(buf)
    /\ out' = <<>>
    /\ phase' = "reset"
    /\ input' = [resets |-> input.resets + 1, uses |-> 0, hadPeek |-> par.hasPeek,
                 slabs |-> Len(buf.slabs),
                 first |-> IF buf.slabs = <<>> THEN 0 ELSE buf.slabs[1].id]

\* the new parser after a call that returned r
returned(l, r) == [p |-> r.p, out |-> Append(l.out, [v |-> r.v, err |-> r.err])]

\* p.ParseOne() after the Reset, and the same call on the new parser
NextCall ==
    /\ phase = "reset"
    /\ Len(out) < MaxNext
    /\ out' = Append(out, ParseOne(par))
    /\ par' = out'[Len(out')].p
    /\ lex' = returned(lex, ParseOne(lex.p))
    /\ \E run \in AllocRuns : buf' = allocAll(buf, run, 1)
    /\ UNCHANGED <<arg, phase, input>>

NextReset == UseParseCall \/ UseAdvanceCall \/ UsePeekCall \/ ResetCall \/ NextCall

SpecReset == InitReset /\ [][NextReset]_vars

\* C21: whatever state the parser was in, after Reset(src) the ParseOne calls
\* return the statements and the errors that the same calls return on a
\* parser newly made on src; Reset leaves no lookahead token, and it leaves
\* the arena at the start of its first slab, every later slab dropped.
C21_ResetIsFresh ==
    phase = "reset" =>
        /\ [i \in 1..Len(out) |-> [v |-> out[i].v, err |-> out[i].err]] = lex.out
        /\ par.tok = lex.p.tok
        /\ par.lex = lex.p.lex
        /\ par.hasPeek = lex.p.hasPeek
        /\ out = <<>> =>
            /\ ~par.hasPeek
            /\ buf.off = 0
            /\ Len(buf.slabs) = (IF input.slabs = 0 THEN 0 ELSE 1)
            /\ buf.cur = input.first
            /\ \A i \in 1..Len(buf.slabs) : buf.slabs[i].id = input.first

\* a parser with a token peeked and two slabs was reset, and gave a statement
\* and then an error of the new source
C21_Witness ==
    /\ phase = "reset"
    /\ input.hadPeek
    /\ input.slabs >= 2
    /\ Len(out) >= 2
    /\ out[1].err = Nil /\ out[1].v # Nil
    /\ out[2].err # Nil

====
